---- MODULE Spec2Model ----
(***************************************************************************)
(* Model of the dynamic categorization pipeline of TheAndrewExchange:      *)
(* src/politics_news_scraper/categorizer.py (DynamicCategorizer).          *)
(*                                                                         *)
(* The completion endpoint is the environment: every call draws its reply  *)
(* from a finite set of replies (transport failure, a body without the     *)
(* expected fields, or a text).  A text is a sequence of tokens; the       *)
(* cleaning steps and the JSON parser work on that sequence as the code    *)
(* works on the characters.                                                *)
(***************************************************************************)
EXTENDS Integers, Sequences, FiniteSets, TLC

VARIABLES
    pc,             \* position of the running function
    err,            \* "none", or the class of the exception that left the function
    reply,          \* the reply of the last completion call
    calls,          \* log of the completion calls issued, in order
    categories,     \* list of category names (result of generate_categories)
    articles,       \* the input article list
    heap,           \* the Python list objects: heap[ref] is a list of article ids
    categorized,    \* dict of categorize_articles: sequence of [k: name, v: ref]
    filtered_count, \* local of categorize_articles
    filtered_log,   \* the articles filtered_count has counted, in order
    loop_i,         \* the variable i of the running batch loop (offset of the batch)
    result,         \* the value the function returned
    \* locals of filter_and_validate_categories (dicts and lists of keys)
    valid_categories, removed_small, relevant_categories, removed_irrelevant,
    removed_articles, existing_categories, batch_results

ctlVars == <<pc, err, reply, calls>>
catVars == <<articles, heap, categorized, filtered_count, filtered_log, loop_i>>
fvVars == <<valid_categories, removed_small, relevant_categories, removed_irrelevant,
            removed_articles, existing_categories, batch_results>>
vars == <<pc, err, reply, calls, categories, articles, heap, categorized,
          filtered_count, filtered_log, loop_i, result, valid_categories,
          removed_small, relevant_categories, removed_irrelevant, removed_articles,
          existing_categories, batch_results>>

----------------------------------------------------------------------------
(* Bounds of the model *)

MaxArrLen == 2      \* longest JSON array in a category-generation reply

----------------------------------------------------------------------------
(* Sequences *)

Range(s) == {s[i] : i \in DOMAIN s}

Min(a, b) == IF a <= b THEN a ELSE b

Slice(s, lo, hi) == SubSeq(s, lo, Min(hi, Len(s)))            \* s[lo-1:hi]

----------------------------------------------------------------------------
(* JSON values, as json.loads builds them.                                  *)
(* k is the Python type, v the payload: a number is kept as its literal.    *)

JNull      == [k |-> "null", v |-> 0]
JBool(b)   == [k |-> "bool", v |-> b]
JNum(s)    == [k |-> "num",  v |-> s]
JStr(s)    == [k |-> "str",  v |-> s]
JArr(seq)  == [k |-> "arr",  v |-> seq]
JObj(f)    == [k |-> "obj",  v |-> f]

IsList(j)  == j.k = "arr"          \* isinstance(j, list)
IsDict(j)  == j.k = "obj"
IsPyStr(j) == j.k = "str"          \* isinstance(j, str)
Hashable(j) == j.k \notin {"arr", "obj"}

\* bool(j): the truth value Python gives a decoded value
Truthy(j) ==
    CASE j.k = "null" -> FALSE
      [] j.k = "bool" -> j.v
      [] j.k = "num"  -> j.v # "0"
      [] j.k = "str"  -> j.v # ""
      [] j.k = "arr"  -> Len(j.v) > 0
      [] j.k = "obj"  -> DOMAIN j.v # {}

\* str(j), the conversion generate_categories applies to every element
RECURSIVE PyStr(_)
RECURSIVE PyRepr(_)
RECURSIVE JoinRepr(_, _)
PyRepr(j) ==
    CASE j.k = "str" -> "'" \o j.v \o "'"
      [] OTHER       -> PyStr(j)
JoinRepr(seq, i) ==
    IF i > Len(seq) THEN ""
    ELSE PyRepr(seq[i]) \o (IF i < Len(seq) THEN ", " ELSE "") \o JoinRepr(seq, i + 1)
PyStr(j) ==
    CASE j.k = "null" -> "None"
      [] j.k = "bool" -> IF j.v THEN "True" ELSE "False"
      [] j.k = "num"  -> j.v
      [] j.k = "str"  -> j.v
      [] j.k = "arr"  -> "[" \o JoinRepr(j.v, 1) \o "]"
      [] j.k = "obj"  -> "{...}"

----------------------------------------------------------------------------
(* Texts: sequences of tokens.                                              *)

Tok(kind)  == [k |-> kind, s |-> ""]
TStr(s)    == [k |-> "str", s |-> s]       \* a quoted JSON string
TNum(s)    == [k |-> "num", s |-> s]       \* a JSON number literal

\* a quoted string with three backticks inside is three pieces: the opening
\* quote and what precedes the backticks, the Fence, what follows and the
\* closing quote
StrOpen(s)  == [k |-> "stropen", s |-> s]
StrClose(s) == [k |-> "strclose", s |-> s]

Ws    == Tok("ws")        \* white space
Fence == Tok("fence")     \* three backticks
Tag   == Tok("tag")       \* the four letters json
Junk  == Tok("junk")      \* prose that is no JSON

\* str.strip()
RECURSIVE LStrip(_)
LStrip(t) == IF Len(t) > 0 /\ t[1] = Ws THEN LStrip(Tail(t)) ELSE t
RECURSIVE RStrip(_)
RStrip(t) == IF Len(t) > 0 /\ t[Len(t)] = Ws THEN RStrip(SubSeq(t, 1, Len(t) - 1)) ELSE t
Strip(t) == RStrip(LStrip(t))

StartsWith(t, tok) == Len(t) > 0 /\ t[1] = tok

\* t.split("```")[1] for a text that starts with the fence: what lies between
\* the first fence and the next one (or the end of the text)
RECURSIVE UpToFence(_)
UpToFence(t) ==
    IF Len(t) = 0 \/ t[1] = Fence THEN <<>> ELSE <<t[1]>> \o UpToFence(Tail(t))
SplitFenceSecond(t) == UpToFence(Tail(t))

\* The cleaning every handler applies to the reply text before json.loads
CleanResponse(text) ==
    LET r1 == Strip(text)
        r2 == IF StartsWith(r1, Fence)
              THEN LET seg == SplitFenceSecond(r1)
                   IN  IF StartsWith(seg, Tag) THEN Tail(seg) ELSE seg
              ELSE r1
    IN  Strip(r2)

----------------------------------------------------------------------------
(* json.loads on a token sequence: recursive descent.                       *)
(* A parse result is [ok, v, n]: n is the index after the value.            *)

ParseFail == [ok |-> FALSE, v |-> JNull, n |-> 0]
ParseOk(val, next) == [ok |-> TRUE, v |-> val, n |-> next]

RECURSIVE SkipWs(_, _)
SkipWs(t, i) == IF i <= Len(t) /\ t[i] = Ws THEN SkipWs(t, i + 1) ELSE i

DictSet(f, key, val) ==
    [x \in (DOMAIN f) \cup {key} |-> IF x = key THEN val ELSE f[x]]

RECURSIVE ParseValue(_, _)
RECURSIVE ParseElems(_, _, _)
RECURSIVE ParseMembers(_, _, _)

ParseValue(t, i) ==
    LET j == SkipWs(t, i) IN
    IF j > Len(t) THEN ParseFail
    ELSE CASE t[j].k = "null"   -> ParseOk(JNull, j + 1)
           [] t[j].k = "true"   -> ParseOk(JBool(TRUE), j + 1)
           [] t[j].k = "false"  -> ParseOk(JBool(FALSE), j + 1)
           [] t[j].k = "num"    -> ParseOk(JNum(t[j].s), j + 1)
           [] t[j].k = "str"    -> ParseOk(JStr(t[j].s), j + 1)
           [] t[j].k = "stropen" ->
                IF j + 2 <= Len(t) /\ t[j + 1].k = "fence" /\ t[j + 2].k = "strclose"
                THEN ParseOk(JStr(t[j].s \o "<fence>" \o t[j + 2].s), j + 3)
                ELSE ParseFail
           [] t[j].k = "lbrack" ->
                LET m == SkipWs(t, j + 1) IN
                IF m <= Len(t) /\ t[m].k = "rbrack"
                THEN ParseOk(JArr(<<>>), m + 1)
                ELSE ParseElems(t, j + 1, <<>>)
           [] t[j].k = "lbrace" ->
                LET m == SkipWs(t, j + 1) IN
                IF m <= Len(t) /\ t[m].k = "rbrace"
                THEN ParseOk(JObj(<<>>), m + 1)
                ELSE ParseMembers(t, j + 1, <<>>)
           [] OTHER -> ParseFail

ParseElems(t, i, acc) ==
    LET r == ParseValue(t, i) IN
    IF ~r.ok THEN ParseFail
    ELSE LET j == SkipWs(t, r.n) IN
         IF j > Len(t) THEN ParseFail
         ELSE CASE t[j].k = "comma"  -> ParseElems(t, j + 1, Append(acc, r.v))
                [] t[j].k = "rbrack" -> ParseOk(JArr(Append(acc, r.v)), j + 1)
                [] OTHER -> ParseFail

ParseMembers(t, i, acc) ==
    LET j == SkipWs(t, i) IN
    IF j > Len(t) \/ t[j].k # "str" THEN ParseFail
    ELSE LET c == SkipWs(t, j + 1) IN
         IF c > Len(t) \/ t[c].k # "colon" THEN ParseFail
         ELSE LET r == ParseValue(t, c + 1) IN
              IF ~r.ok THEN ParseFail
              ELSE LET m == SkipWs(t, r.n) IN
                   IF m > Len(t) THEN ParseFail
                   ELSE CASE t[m].k = "comma"  ->
                               ParseMembers(t, m + 1, DictSet(acc, t[j].s, r.v))
                          [] t[m].k = "rbrace" ->
                               ParseOk(JObj(DictSet(acc, t[j].s, r.v)), m + 1)
                          [] OTHER -> ParseFail

\* json.loads(text): [ok |-> FALSE] stands for json.JSONDecodeError
JsonLoads(t) ==
    LET r == ParseValue(t, 1) IN
    IF r.ok /\ SkipWs(t, r.n) > Len(t) THEN [ok |-> TRUE, v |-> r.v]
    ELSE [ok |-> FALSE, v |-> JNull]

----------------------------------------------------------------------------
(* Texts the completion endpoint may send.                                  *)

RECURSIVE JoinToks(_, _)
JoinToks(seqs, i) ==
    IF i > Len(seqs) THEN <<>>
    ELSE seqs[i] \o (IF i < Len(seqs) THEN <<Tok("comma"), Ws>> ELSE <<>>)
                 \o JoinToks(seqs, i + 1)

ArrText(elems) == <<Tok("lbrack")>> \o JoinToks(elems, 1) \o <<Tok("rbrack")>>

\* members: sequence of <<key, value text>>
ObjText(members) ==
    <<Tok("lbrace")>>
    \o JoinToks([i \in DOMAIN members |->
                   <<TStr(members[i][1]), Tok("colon"), Ws>> \o members[i][2]], 1)
    \o <<Tok("rbrace")>>

\* The ways a model wraps its answer
Styles == {"plain", "padded", "fenced", "fenced_json", "fenced_prose"}

Wrap(style, body) ==
    CASE style = "plain"        -> body
      [] style = "padded"       -> <<Ws>> \o body \o <<Ws, Ws>>
      [] style = "fenced"       -> <<Fence, Ws>> \o body \o <<Ws, Fence>>
      [] style = "fenced_json"  -> <<Ws, Fence, Tag, Ws>> \o body \o <<Ws, Fence, Ws>>
      [] style = "fenced_prose" -> <<Fence, Tag, Ws>> \o body \o <<Ws, Fence, Ws, Junk>>

\* Texts that are no JSON after cleaning
BadTexts ==
    { <<>>, <<Junk>>, <<Junk, Ws, Fence, Tag, Ws, Tok("lbrack"), Tok("rbrack"), Ws, Fence>>,
      <<Tok("lbrack"), TStr("A")>>, <<Fence, Tag, Ws, Junk, Fence>>,
      <<Tok("lbrack"), Tok("rbrack"), Ws, Junk>>, <<Tag, Tok("lbrack"), Tok("rbrack")>> }

----------------------------------------------------------------------------
(* _call_openrouter                                                         *)

\* A reply of the endpoint: requests raises (transport / HTTP status / body
\* that is no JSON), the body lacks choices[0].message.content, or a text.
TransportFailure == [kind |-> "transport", text |-> <<>>]
MalformedBody    == [kind |-> "malformed", text |-> <<>>]
TextReply(t)     == [kind |-> "text", text |-> t]

NoReply == [kind |-> "none", text |-> <<>>]

\* What _call_openrouter does with a reply: returns the text, or raises.
\* A RequestException is re-raised as a plain Exception; a missing field is a
\* KeyError that the except clause does not match.
CallOpenrouter(r) ==
    CASE r.kind = "transport" -> [raised |-> "Exception", text |-> <<>>]
      [] r.kind = "malformed" -> [raised |-> "KeyError",  text |-> <<>>]
      [] OTHER                -> [raised |-> "none",      text |-> r.text]

\* reply -> decoded value, through the call, the cleaning and json.loads:
\* [raised, v] where raised is "none" or the exception class
CallAndDecode(r) ==
    LET c == CallOpenrouter(r) IN
    IF c.raised # "none" THEN [raised |-> c.raised, v |-> JNull]
    ELSE LET d == JsonLoads(CleanResponse(c.text)) IN
         IF d.ok THEN [raised |-> "none", v |-> d.v]
         ELSE [raised |-> "JSONDecodeError", v |-> JNull]

\* Python's except clauses
IsSubclass(exc, cls) ==
    \/ exc = cls
    \/ cls = "Exception"
    \/ cls = "ValueError" /\ exc = "JSONDecodeError"
    \/ cls = "LookupError" /\ exc \in {"KeyError", "IndexError"}

Catches(classes, exc) == \E c \in classes : IsSubclass(exc, c)

----------------------------------------------------------------------------
(* The replies the endpoint gives, per kind of call.                        *)

BatchSizeAssign == 10       \* batch_size of categorize_articles

\* Replies for the category-generation call
GenElems ==
    { <<TStr("Trade Policy")>>, <<TStr("Healthcare")>>, <<TNum("7")>>, <<Tok("null")>>,
      <<Tok("true")>>, ArrText(<<<<TStr("x")>>, <<TNum("1")>>>>) }

RECURSIVE SeqsUpTo(_, _)
SeqsUpTo(S, n) ==
    IF n = 0 THEN {<<>>}
    ELSE LET shorter == SeqsUpTo(S, n - 1)
         IN  shorter \cup {Append(s, x) : s \in {q \in shorter : Len(q) = n - 1}, x \in S}

GenBodies ==
    { ArrText(es) : es \in SeqsUpTo(GenElems, MaxArrLen) }
    \cup { <<TStr("Trade Policy")>>, <<Tok("null")>>, <<TNum("3")>>,
           ObjText(<<<<"categories", ArrText(<<<<TStr("Healthcare")>>>>)>>>>) }

GenReplies ==
    {TransportFailure, MalformedBody}
    \cup {TextReply(Wrap(st, b)) : st \in Styles, b \in GenBodies}
    \cup {TextReply(t) : t \in BadTexts}

\* Replies to an assignment call for a batch of n articles
ReplyNames == {"Trade Policy", "Healthcare", "Sports"}

\* what the reply says for one position; <<>> leaves the key out
PositionValues ==
    {<<TStr(c)>> : c \in ReplyNames}
    \cup {<<TStr("FILTER_OUT")>>, <<Tok("null")>>, ArrText(<<>>), <<>>}

\* the object that answers x at the odd positions and y at the even ones
PatternObject(n, x, y) ==
    LET val(p) == IF p % 2 = 1 THEN x ELSE y
        present == SelectSeq([p \in 1..n |-> p], LAMBDA p : val(p) # <<>>)
    IN  ObjText([q \in DOMAIN present |-> <<ToString(present[q]), val(present[q])>>])

AssignBodies(n) ==
    {PatternObject(n, x, y) : x \in PositionValues, y \in PositionValues}
    \cup { ArrText(<<>>), ArrText(<<<<TStr("2")>>>>), <<TStr("2")>>, <<TStr("12")>>,
           <<TNum("5")>>, <<Tok("null")>> }

AssignStyles == {"plain", "fenced_json"}

AssignReplies(n) ==
    {TransportFailure, MalformedBody, TextReply(<<Junk>>)}
    \cup {TextReply(Wrap(st, b)) : st \in AssignStyles, b \in AssignBodies(n)}

AssignRepliesFor == [n \in 1..BatchSizeAssign |-> AssignReplies(n)]

BatchSizeValidate == 5      \* batch_size of the validation loop

\* Replies to a validation call for a batch of n categories
VerdictValues == {<<Tok("true")>>, <<Tok("false")>>, <<Tok("null")>>, <<TStr("false")>>}

\* the array of length n that answers x at the odd positions and y at the even ones
PatternArray(n, x, y) == ArrText([p \in 1..n |-> IF p % 2 = 1 THEN x ELSE y])

ValidationReplies(n) ==
    {TransportFailure, MalformedBody, TextReply(<<Junk>>)}
    \cup {TextReply(Wrap(IF x = y THEN "fenced_json" ELSE "plain", PatternArray(n, x, y))) :
            x \in VerdictValues, y \in VerdictValues}
    \cup {TextReply(PatternArray(n + 1, <<Tok("false")>>, <<Tok("false")>>)),
          TextReply(PatternArray(n - 1, <<Tok("false")>>, <<Tok("false")>>)),
          TextReply(<<Tok("false")>>),
          TextReply(ObjText(<<<<"1", <<Tok("false")>>>>>>))}

ValidationRepliesFor == [n \in 1..BatchSizeValidate |-> ValidationReplies(n)]

\* mutant: the recollection loop takes the batch size of categorize_articles
BatchSizeRecollectAsAssign == BatchSizeAssign

BatchSizeRecollect == 5     \* batch_size of the recollection loop

RecatReply(a) == TextReply(Wrap(IF a[2] = a[Len(a) - 1] THEN "fenced" ELSE "plain", a))

\* Replies to a recategorize-only call for a batch of n orphans: failures,
\* current names and the sentinel in its spellings, null, a current name in
\* another letter case, a new name, an array too long, a value that is no array
RecatReplies(n) ==
    {TransportFailure,
     TextReply(<<Junk>>),
     RecatReply(PatternArray(n, <<TStr("Trade Policy")>>, <<TStr("NONE")>>)),
     RecatReply(PatternArray(n, <<TStr("Healthcare")>>, <<TStr("Tariffs")>>)),
     RecatReply(PatternArray(n, <<TStr("none")>>, <<Tok("null")>>)),
     RecatReply(PatternArray(n, <<TStr("None")>>, <<TStr("trade policy")>>)),
     RecatReply(PatternArray(n + 1, <<TStr("Trade Policy")>>, <<TStr("Trade Policy")>>)),
     TextReply(<<TStr("Trade Policy")>>)}

RecatRepliesFor == [n \in 1..BatchSizeRecollect |-> RecatReplies(n)]

\* The category names of the model's mappings, in mapping order
CategoryPool ==
    <<"Trade Policy", "Healthcare", "Elections", "Immigration", "Climate", "Courts",
      "Budget", "Energy">>

\* Rename objects: what each current name is renamed to (<<>>: name left out)
RenameRules == {"same", "all_one", "next", "first_only", "first_null", "first_list",
                "second_first", "none"}
RenameTarget(rule, x) ==
    CASE rule = "same"         -> <<TStr(CategoryPool[x])>>
      [] rule = "all_one"      -> <<TStr("Tariffs")>>
      [] rule = "next"         -> <<TStr(CategoryPool[(x % Len(CategoryPool)) + 1])>>
      [] rule = "first_only"   -> IF x = 1 THEN <<TStr("Tariffs")>> ELSE <<>>
      [] rule = "first_null"   -> IF x = 1 THEN <<Tok("null")>> ELSE <<TStr(CategoryPool[x])>>
      [] rule = "first_list"   -> IF x = 1 THEN ArrText(<<>>) ELSE <<TStr("Tariffs")>>
      [] rule = "second_first" -> IF x = 2 THEN <<TStr(CategoryPool[1])>> ELSE <<>>
      [] rule = "none"         -> <<>>
RenameObject(rule) ==
    LET present == SelectSeq([x \in DOMAIN CategoryPool |-> x],
                             LAMBDA x : RenameTarget(rule, x) # <<>>)
    IN  ObjText([q \in DOMAIN present |->
                   <<CategoryPool[present[q]], RenameTarget(rule, present[q])>>])

\* Replies to a rename-only call
RenameReplies ==
    {TransportFailure, MalformedBody, TextReply(<<Junk>>)}
    \cup {TextReply(Wrap(IF rule = "next" THEN "fenced_json" ELSE "plain", RenameObject(rule))) :
            rule \in RenameRules}
    \cup {TextReply(ArrText(<<>>)), TextReply(<<TStr("Tariffs")>>), TextReply(<<Tok("null")>>)}

CombinedReply(a, rn) ==
    TextReply(Wrap(IF rn = RenameObject("first_only") THEN "fenced_json" ELSE "plain",
                   ObjText(<<<<"recategorizations", a>>, <<"renames", rn>>>>)))

\* Replies to the combined call for a batch of n orphans
CombinedReplies(n) ==
    {TransportFailure,
     TextReply(ObjText(<<>>)),
     CombinedReply(PatternArray(n, <<TStr("Trade Policy")>>, <<TStr("Healthcare")>>),
                   RenameObject("all_one")),
     CombinedReply(PatternArray(n, <<TStr("Tariffs")>>, <<TStr("Trade Policy")>>),
                   RenameObject("first_only")),
     CombinedReply(PatternArray(n, <<TStr("Trade Policy")>>, <<TStr("Healthcare")>>),
                   RenameObject("first_list")),
     CombinedReply(PatternArray(n, <<TStr("none")>>, <<TStr("Healthcare")>>),
                   RenameObject("same")),
     CombinedReply(PatternArray(n + 1, <<TStr("Trade Policy")>>, <<TStr("Trade Policy")>>),
                   RenameObject("second_first"))}

CombinedRepliesFor == [n \in 1..BatchSizeRecollect |-> CombinedReplies(n)]

\* the object that puts the first tp articles of a batch of n in the first
\* category, the next hc in the second and filters the others out
PlacementObject(n, tp, hc) ==
    ObjText([p \in 1..n |->
               <<ToString(p),
                 IF p <= tp THEN <<TStr(CategoryPool[1])>>
                 ELSE IF p <= tp + hc THEN <<TStr(CategoryPool[2])>>
                 ELSE <<TStr("FILTER_OUT")>>>>])
PlacementReplies(n) ==
    {TextReply(PlacementObject(n, tp, hc)) :
        tp \in {t \in {n - 3, n - 2} : t >= 0}, hc \in {0, 1}}
PlacementRepliesFor == [n \in 1..BatchSizeAssign |-> PlacementReplies(n)]

KnownReplies ==
    UNION Range(PlacementRepliesFor) \cup
    GenReplies \cup UNION Range(AssignRepliesFor) \cup UNION Range(ValidationRepliesFor)
    \cup UNION Range(RecatRepliesFor) \cup RenameReplies \cup UNION Range(CombinedRepliesFor)

\* CallAndDecode, tabulated once over the replies of the model
Decoded == [r \in KnownReplies |-> CallAndDecode(r)]

----------------------------------------------------------------------------
(* generate_categories                                                      *)

FallbackCategories ==
    <<"General Politics", "Elections", "Policy", "International Relations",
      "Domestic Affairs">>

\* mutant: the except clause names json.JSONDecodeError alone
GenerateCatchesDecodeOnly == {"JSONDecodeError"}

\* except (json.JSONDecodeError, ValueError), line 102
GenerateCatches == {"JSONDecodeError", "ValueError"}

\* The result of generate_categories for a reply: [raised, value]
GenerateResult(r) ==
    LET d   == CallAndDecode(r)
        exc == IF d.raised # "none" THEN d.raised
               ELSE IF IsList(d.v) THEN "none" ELSE "ValueError"
    IN  IF exc = "none"
        THEN [raised |-> "none", value |-> [i \in DOMAIN d.v.v |-> PyStr(d.v.v[i])]]
        ELSE IF Catches(GenerateCatches, exc)
             THEN [raised |-> "none", value |-> FallbackCategories]
             ELSE [raised |-> exc, value |-> <<>>]

GenerateCategories ==
    /\ pc = "generate"
    /\ \E r \in GenReplies :
         LET res == GenerateResult(r) IN
         /\ reply' = r
         /\ calls' = Append(calls, [fn |-> "generate_categories", arts |-> <<>>, cats |-> <<>>, sizes |-> <<>>])
         /\ err' = res.raised
         /\ categories' = res.value
         /\ pc' = IF res.raised = "none" THEN "generated" ELSE "raised"
    /\ UNCHANGED <<catVars, result, fvVars>>

NoResult == <<>>

InitCtl(start) ==
    /\ pc = start
    /\ err = "none"
    /\ reply = NoReply
    /\ calls = <<>>
    /\ result = NoResult

InitFvVars ==
    /\ valid_categories = <<>>
    /\ removed_small = <<>>
    /\ relevant_categories = <<>>
    /\ removed_irrelevant = <<>>
    /\ removed_articles = <<>>
    /\ existing_categories = <<>>
    /\ batch_results = <<>>

InitCatVars ==
    /\ articles = <<>>
    /\ heap = <<>>
    /\ categorized = <<>>
    /\ filtered_count = 0
    /\ filtered_log = <<>>
    /\ loop_i = 0

InitGen ==
    /\ InitCtl("generate")
    /\ categories = <<>>
    /\ InitCatVars
    /\ InitFvVars

NextGen == GenerateCategories

SpecGen == InitGen /\ [][NextGen]_vars

(* C4: generate_categories never raises: whatever the reply of its single   *)
(* completion call, it ends by returning a list of category names.          *)
C4_GenerateNeverRaises ==
    pc # "generate" => (pc = "generated" /\ err = "none")

(* C5: when the reply text is no JSON after fence stripping, or decodes to  *)
(* a value that is not an array, generate_categories returns exactly the    *)
(* five fallback names in order; when it decodes to an array it returns the *)
(* array's elements in order, each converted with str().                    *)
C5_FallbackOrElements ==
    (pc # "generate" /\ reply.kind = "text") =>
        LET d == JsonLoads(CleanResponse(reply.text)) IN
        /\ err = "none"
        /\ (~d.ok \/ ~IsList(d.v)) =>
              categories = <<"General Politics", "Elections", "Policy",
                             "International Relations", "Domestic Affairs">>
        /\ (d.ok /\ IsList(d.v)) =>
              /\ Len(categories) = Len(d.v.v)
              /\ \A x \in DOMAIN categories : categories[x] = PyStr(d.v.v[x])

\* a fenced reply that decodes to a JSON string has been answered by the fallback
C5_Witness ==
    /\ pc = "generated"
    /\ reply = TextReply(Wrap("fenced_json", <<TStr("Trade Policy")>>))
    /\ categories = FallbackCategories

----------------------------------------------------------------------------
(* Python dicts with list values: a sequence of [k |-> key, v |-> ref] in     *)
(* insertion order; key is a (hashable) JSON value, a category name being     *)
(* JStr(name); ref is the index in heap of the list object.                   *)

PyDictHas(d, key) == \E x \in DOMAIN d : d[x].k = key
PyDictGet(d, key) == d[CHOOSE x \in DOMAIN d : d[x].k = key].v
PyDictSet(d, key, ref) ==
    IF PyDictHas(d, key)
    THEN [x \in DOMAIN d |-> IF d[x].k = key THEN [k |-> key, v |-> ref] ELSE d[x]]
    ELSE Append(d, [k |-> key, v |-> ref])
PyDictKeys(d) == [x \in DOMAIN d |-> d[x].k]

\* {category: [] for category in categories}: one new list per element of
\* categories, allocated from heap index base + 1 on
RECURSIVE DictOfEmptyLists(_, _, _, _)
DictOfEmptyLists(cats, x, base, d) ==
    IF x > Len(cats) THEN d
    ELSE DictOfEmptyLists(cats, x + 1, base, PyDictSet(d, JStr(cats[x]), base + x))

\* mutant: the article is appended twice
HeapAppendTwice(h, ref, a) == [h EXCEPT ![ref] = h[ref] \o <<a, a>>]

HeapAppend(h, ref, a) == [h EXCEPT ![ref] = Append(h[ref], a)]

\* number of times a occurs in the list s
RECURSIVE Occurrences(_, _)
Occurrences(s, a) ==
    IF Len(s) = 0 THEN 0
    ELSE (IF s[1] = a THEN 1 ELSE 0) + Occurrences(Tail(s), a)

----------------------------------------------------------------------------
(* categorize_articles                                                      *)

\* An article: its identity and what article.get('description', ...) finds:
\* a string ("text"), no such key ("absent"), or null ("null")
DescKinds == {"text", "absent", "null"}
MkArticles(n, d) ==
    [x \in 1..n |-> [id |-> x, description |-> IF x = n THEN d ELSE "text"]]

\* article.get('description', 'No description')[:300] raises TypeError on None
PromptRaises(batch) == \E x \in DOMAIN batch : batch[x].description = "null"

\* sub in s, for the strings of the model
ProperSubstrings == {<<"1", "12">>, <<"2", "12">>, <<"1", "10">>, <<"0", "10">>}
StrContains(s, sub) == s = sub \/ <<sub, s>> \in ProperSubstrings

\* article_num in assignments: [raised, b]
ContainsKey(assignments, key) ==
    CASE assignments.k = "obj" -> [raised |-> "none", b |-> key \in DOMAIN assignments.v]
      [] assignments.k = "arr" ->
            [raised |-> "none", b |-> \E x \in DOMAIN assignments.v : assignments.v[x] = JStr(key)]
      [] assignments.k = "str" -> [raised |-> "none", b |-> StrContains(assignments.v, key)]
      [] OTHER -> [raised |-> "TypeError", b |-> FALSE]

\* The running state of one batch: the heap, the filter tally, and the
\* exception in flight
RaiseIn(st, exc) == [st EXCEPT !.raised = exc]

\* categorized[categories[0]].append(article)
AppendToFirst(st, cats, dict, a) ==
    IF Len(cats) = 0 THEN RaiseIn(st, "IndexError")
    ELSE [st EXCEPT !.heap = HeapAppend(st.heap, PyDictGet(dict, JStr(cats[1])), a)]

\* The body of the loop over the batch, lines 169-183, for position j (from 1)
AssignOne(st, cats, dict, assignments, j, a) ==
    LET key == ToString(j)
        has == ContainsKey(assignments, key)
    IN  IF has.raised # "none" THEN RaiseIn(st, has.raised)
        ELSE IF has.b
        THEN IF ~IsDict(assignments) THEN RaiseIn(st, "TypeError")
             ELSE LET category == assignments.v[key] IN
                  IF category = JStr("FILTER_OUT")
                  THEN [st EXCEPT !.filtered_count = st.filtered_count + 1,
                                  !.filtered_log = Append(st.filtered_log, a)]
                  ELSE IF ~Hashable(category) THEN RaiseIn(st, "TypeError")
                  ELSE IF PyDictHas(dict, category)
                  THEN [st EXCEPT !.heap = HeapAppend(st.heap, PyDictGet(dict, category), a)]
                  ELSE AppendToFirst(st, cats, dict, a)
        ELSE AppendToFirst(st, cats, dict, a)

RECURSIVE AssignLoop(_, _, _, _, _, _)
AssignLoop(st, cats, dict, assignments, batch, j) ==
    IF j > Len(batch) \/ st.raised # "none" THEN st
    ELSE AssignLoop(AssignOne(st, cats, dict, assignments, j, batch[j].id),
                    cats, dict, assignments, batch, j + 1)

\* mutant: the except clause only logs the error and drops the batch
ExceptFallbackDropsBatch(st, cats, dict, batch, j) == st

\* The except clause, lines 185-189: every article of the batch to categories[0]
RECURSIVE ExceptFallback(_, _, _, _, _)
ExceptFallback(st, cats, dict, batch, j) ==
    IF j > Len(batch) \/ st.raised # "none" THEN st
    ELSE ExceptFallback(AppendToFirst(st, cats, dict, batch[j].id), cats, dict, batch, j + 1)

\* One pass of the loop body from the call on, lines 155-189
AssignBatch(st, cats, dict, batch, r) ==
    LET d == Decoded[r] IN
    IF d.raised # "none" THEN ExceptFallback(st, cats, dict, batch, 1)
    ELSE LET st1 == AssignLoop(st, cats, dict, d.v, batch, 1) IN
         IF st1.raised = "none" THEN st1
         ELSE ExceptFallback(RaiseIn(st1, "none"), cats, dict, batch, 1)

CallRecord(fn, arts, cats, sizes) ==
    [fn |-> fn, arts |-> arts, cats |-> cats, sizes |-> sizes]

\* a call issued for a batch of orphans, with the assignments its function returned
AssignmentRecord(fn, arts, cats, returned) ==
    [fn |-> fn, arts |-> arts, cats |-> cats, sizes |-> <<>>, returned |-> returned]

Ids(batch) == [x \in DOMAIN batch |-> batch[x].id]

\* lines 119-123
CategorizeEnter ==
    /\ pc = "categorize"
    /\ categorized' = DictOfEmptyLists(categories, 1, Len(heap), <<>>)
    /\ heap' = heap \o [x \in 1..Len(categories) |-> <<>>]
    /\ filtered_count' = 0
    /\ filtered_log' = <<>>
    /\ loop_i' = 0
    /\ pc' = "categorize_loop"
    /\ UNCHANGED <<err, reply, calls, categories, articles, result, fvVars>>

\* one iteration of the loop of line 124, the reply drawn from Replies
CategorizeBatchWith(Replies) ==
    /\ pc = "categorize_loop"
    /\ loop_i < Len(articles)
    /\ LET batch == Slice(articles, loop_i + 1, loop_i + BatchSizeAssign) IN
       IF PromptRaises(batch)
       THEN /\ pc' = "raised"
            /\ err' = "TypeError"
            /\ UNCHANGED <<reply, calls, categories, catVars, result, fvVars>>
       ELSE \E r \in Replies[Len(batch)] :
            LET st0 == [heap |-> heap, filtered_count |-> filtered_count,
                        filtered_log |-> filtered_log, raised |-> "none"]
            IN  \E st \in {AssignBatch(st0, categories, categorized, batch, r)} :
                /\ reply' = r
                /\ calls' = Append(calls, CallRecord("categorize_articles", Ids(batch), <<>>, <<>>))
                /\ heap' = st.heap
                /\ filtered_count' = st.filtered_count
                /\ filtered_log' = st.filtered_log
                /\ err' = st.raised
                /\ pc' = IF st.raised = "none" THEN "categorize_loop" ELSE "raised"
                /\ loop_i' = loop_i + BatchSizeAssign
                /\ UNCHANGED <<categories, articles, categorized, result, fvVars>>

CategorizeBatch == CategorizeBatchWith(AssignRepliesFor)

\* line 194
CategorizeReturn ==
    /\ pc = "categorize_loop"
    /\ loop_i >= Len(articles)
    /\ pc' = "categorized"
    /\ result' = categorized
    /\ UNCHANGED <<err, reply, calls, categories, catVars, fvVars>>

MaxArticles == 12

CategoryLists ==
    { <<>>, <<"Trade Policy">>, <<"Trade Policy", "Healthcare">>,
      <<"Healthcare", "Trade Policy", "Healthcare">> }

ArticleLists == {MkArticles(n, d) : n \in 0..MaxArticles, d \in DescKinds}

InitCat ==
    /\ InitCtl("categorize")
    /\ categories \in CategoryLists
    /\ articles \in ArticleLists
    /\ heap = <<>>
    /\ categorized = <<>>
    /\ filtered_count = 0
    /\ filtered_log = <<>>
    /\ loop_i = 0
    /\ InitFvVars

NextCat == CategorizeEnter \/ CategorizeBatch \/ CategorizeReturn

SpecCat == InitCat /\ [][NextCat]_vars

\* total number of times article a occurs in the lists of the dict d
RECURSIVE TimesListed(_, _, _, _)
TimesListed(h, d, x, a) ==
    IF x > Len(d) THEN 0
    ELSE Occurrences(h[d[x].v], a) + TimesListed(h, d, x + 1, a)

ArticleIds == 1..Len(articles)

(* C1: for a non-empty category list, after categorize_articles returns,    *)
(* every input article occurs exactly once in exactly one category list or  *)
(* was counted exactly once in the filtered-out tally, and never both.      *)
C1_EveryArticleOnce ==
    (pc = "categorized" /\ categories # <<>>) =>
        \A a \in ArticleIds :
            TimesListed(heap, categorized, 1, a) + Occurrences(filtered_log, a) = 1

\* a step of CategorizeBatch that issued its call
IsAssignStep == pc = "categorize_loop" /\ Len(calls') = Len(calls) + 1

\* how many more times a is in the list of the key name after the step
Gained(name, a) ==
    Occurrences(heap'[PyDictGet(categorized, name)], a)
    - Occurrences(heap[PyDictGet(categorized, name)], a)
GainedFiltered(a) == Occurrences(filtered_log', a) - Occurrences(filtered_log, a)

OnlyIn(name, a) ==
    /\ GainedFiltered(a) = 0
    /\ \A x \in DOMAIN categorized :
         Gained(categorized[x].k, a) = IF categorized[x].k = name THEN 1 ELSE 0

(* C2: when a batch's reply decodes to a JSON object, the article at        *)
(* position p is handled by exactly one of four rules: key str(p) with      *)
(* value FILTER_OUT: in no category, filtered count + 1; key with a known   *)
(* category: appended to that category only; key with any other value, or   *)
(* key absent: appended to categories[0] only.                              *)
C2_FourRules ==
    [][ (IsAssignStep /\ categories # <<>> /\ Decoded[reply'].raised = "none"
           /\ IsDict(Decoded[reply'].v)) =>
        LET obj == Decoded[reply'].v.v IN
        \A p \in 1..Min(BatchSizeAssign, Len(articles) - loop_i) :
            LET a   == articles[loop_i + p].id
                key == ToString(p)
            IN  IF key \in DOMAIN obj /\ obj[key] = JStr("FILTER_OUT")
                THEN /\ GainedFiltered(a) = 1
                     /\ filtered_count' = filtered_count
                          + Cardinality({q \in 1..Min(BatchSizeAssign, Len(articles) - loop_i) :
                                ToString(q) \in DOMAIN obj /\ obj[ToString(q)] = JStr("FILTER_OUT")})
                     /\ \A x \in DOMAIN categorized : Gained(categorized[x].k, a) = 0
                ELSE IF key \in DOMAIN obj /\ PyDictHas(categorized, obj[key])
                THEN OnlyIn(obj[key], a)
                ELSE OnlyIn(JStr(categories[1]), a)
      ]_vars

(* C3: when the call of a batch fails at call level (transport error, or a  *)
(* reply that is no JSON), every article of the batch is appended to        *)
(* categories[0], the filtered-out count is unchanged, and nothing else     *)
(* changes: the articles of the other batches stay as they were assigned.   *)
C3_CallFailureFallsBack ==
    [][ (IsAssignStep /\ categories # <<>> /\ Decoded[reply'].raised # "none") =>
        LET first == PyDictGet(categorized, JStr(categories[1]))
            batch == Slice(articles, loop_i + 1, loop_i + BatchSizeAssign)
        IN  /\ err' = "none"
            /\ pc' = "categorize_loop"
            /\ filtered_count' = filtered_count
            /\ filtered_log' = filtered_log
            /\ categorized' = categorized
            /\ heap' = [heap EXCEPT ![first] = heap[first] \o Ids(batch)]
      ]_vars

\* the second batch has failed at call level after the first filtered articles
C3_Witness ==
    /\ pc = "categorize_loop"
    /\ loop_i = 2 * BatchSizeAssign
    /\ reply \in {TransportFailure, TextReply(<<Junk>>)}
    /\ filtered_count > 0
    /\ Len(heap[PyDictGet(categorized, JStr(categories[1]))]) >= Len(articles) - BatchSizeAssign

----------------------------------------------------------------------------
(* check_category_relevance                                                 *)

TWord(s) == [k |-> "word", s |-> s]      \* a bare word that is no JSON literal

\* str.lower(), token by token, for the words of the model
LowerTok(t) ==
    IF t.k # "word" THEN t
    ELSE CASE t.s \in {"True", "TRUE"}   -> Tok("true")
           [] t.s \in {"False", "FALSE"} -> Tok("false")
           [] OTHER                      -> t
LowerText(t) == [x \in DOMAIN t |-> LowerTok(t[x])]

\* mutant: an error counts as not relevant
RelevanceOfReplyFailClosed(r) ==
    LET c == CallOpenrouter(r) IN
    IF c.raised # "none" THEN FALSE
    ELSE LowerText(Strip(c.text)) = <<Tok("true")>>

\* lines 230-241: the value returned for a reply
RelevanceOfReply(r) ==
    LET c == CallOpenrouter(r) IN
    IF c.raised # "none" THEN TRUE
    ELSE LowerText(Strip(c.text)) = <<Tok("true")>>

RelevanceReplies ==
    {TransportFailure, MalformedBody}
    \cup {TextReply(t) : t \in
            { <<Tok("true")>>, <<Ws, Tok("true"), Ws>>, <<TWord("True")>>,
              <<Ws, TWord("TRUE"), Ws>>, <<Tok("false")>>, <<TWord("False"), Ws>>,
              <<TStr("true")>>, <<Fence, Tok("true"), Fence>>,
              <<Tok("true"), Ws, Junk>>, <<TWord("true.")>>, <<Junk>>, <<>>,
              <<Tok("true"), Ws, Tok("true")>> }}

CheckCategoryRelevance ==
    /\ pc = "check_relevance"
    /\ IF Len(articles) = 0
       THEN /\ result' = FALSE
            /\ pc' = "returned"
            /\ UNCHANGED <<err, reply, calls>>
       ELSE IF PromptRaises(articles)
       THEN /\ pc' = "raised"
            /\ err' = "TypeError"
            /\ UNCHANGED <<reply, calls, result>>
       ELSE \E r \in RelevanceReplies :
            /\ reply' = r
            /\ calls' = Append(calls, CallRecord("check_category_relevance", Ids(articles),
                                                 categories, <<>>))
            /\ result' = RelevanceOfReply(r)
            /\ pc' = "returned"
            /\ err' = "none"
    /\ UNCHANGED <<categories, catVars, fvVars>>

MaxRelArticles == 4

InitRel ==
    /\ pc = "check_relevance"
    /\ err = "none"
    /\ reply = NoReply
    /\ calls = <<>>
    /\ result = NoResult
    /\ categories \in {<<"Trade Policy">>, <<"Healthcare">>}     \* the argument category
    /\ articles \in {MkArticles(n, d) : n \in 0..MaxRelArticles, d \in DescKinds}
    /\ heap = <<>>
    /\ categorized = <<>>
    /\ filtered_count = 0
    /\ filtered_log = <<>>
    /\ loop_i = 0
    /\ InitFvVars

NextRel == CheckCategoryRelevance

SpecRel == InitRel /\ [][NextRel]_vars

----------------------------------------------------------------------------
(* filter_and_validate_categories: size filter and relevance validation     *)
(* The argument categorized_articles is the dict categorized.               *)

\* mutant: the size filter keeps every non-empty category
KeepsCategoryNonEmpty(n) == n >= 1

\* len(articles) >= 2, line 265
KeepsCategory(n) == n >= 2

\* Step 1, lines 260-272
SizeFilter ==
    /\ pc = "size_filter"
    /\ valid_categories' = SelectSeq(categorized, LAMBDA e : KeepsCategory(Len(heap[e.v])))
    /\ removed_small' =
         PyDictKeys(SelectSeq(categorized, LAMBDA e : ~KeepsCategory(Len(heap[e.v]))))
    /\ relevant_categories' = <<>>
    /\ removed_irrelevant' = <<>>
    /\ batch_results' = <<>>
    /\ loop_i' = 0
    /\ pc' = "validate"
    /\ UNCHANGED <<err, reply, calls, result, categories, articles, heap, categorized,
                   filtered_count, filtered_log, removed_articles, existing_categories>>

AllTrue(n) == [x \in 1..n |-> JBool(TRUE)]

\* mutant: a batch whose check failed is dropped
CheckBatchCategoryRelevanceFailClosed(n, r) ==
    LET d == Decoded[r] IN
    IF d.raised = "none" /\ IsList(d.v) /\ Len(d.v.v) = n THEN d.v.v
    ELSE [x \in 1..n |-> JBool(FALSE)]

\* _check_batch_category_relevance, lines 380-405, for a batch of n pairs
CheckBatchCategoryRelevance(n, r) ==
    LET d == Decoded[r] IN
    IF d.raised # "none" THEN AllTrue(n)
    ELSE IF IsList(d.v) /\ Len(d.v.v) = n THEN d.v.v
    ELSE AllTrue(n)

\* mutant: every category of the batch is kept whatever its verdict
ZipKeptAll(batch, results, x) == SubSeq(batch, x, Len(batch))

\* the pairs of batch (from position x on) whose result is true / not true, line 286-291
RECURSIVE ZipKept(_, _, _)
ZipKept(batch, results, x) ==
    IF x > Len(batch) \/ x > Len(results) THEN <<>>
    ELSE (IF Truthy(results[x]) THEN <<batch[x]>> ELSE <<>>) \o ZipKept(batch, results, x + 1)
RECURSIVE ZipDropped(_, _, _)
ZipDropped(batch, results, x) ==
    IF x > Len(batch) \/ x > Len(results) THEN <<>>
    ELSE (IF Truthy(results[x]) THEN <<>> ELSE <<batch[x].k>>) \o ZipDropped(batch, results, x + 1)

\* relevant_categories[category] = articles, for each pair in order
RECURSIVE PyDictSetAll(_, _, _)
PyDictSetAll(d, pairs, x) ==
    IF x > Len(pairs) THEN d
    ELSE PyDictSetAll(PyDictSet(d, pairs[x].k, pairs[x].v), pairs, x + 1)

Sizes(h, pairs) == [x \in DOMAIN pairs |-> Len(h[pairs[x].v])]

\* one iteration of the loop of line 282
ValidateBatchWith(Replies) ==
    /\ pc = "validate"
    /\ loop_i < Len(valid_categories)
    /\ LET batch == Slice(valid_categories, loop_i + 1, loop_i + BatchSizeValidate) IN
       \E r \in Replies[Len(batch)] :
       \E results \in {CheckBatchCategoryRelevance(Len(batch), r)} :
         /\ reply' = r
         /\ calls' = Append(calls, CallRecord("_check_batch_category_relevance", <<>>,
                                              PyDictKeys(batch), Sizes(heap, batch)))
         /\ batch_results' = results
         /\ relevant_categories' = PyDictSetAll(relevant_categories, ZipKept(batch, results, 1), 1)
         /\ removed_irrelevant' = removed_irrelevant \o ZipDropped(batch, results, 1)
         /\ loop_i' = loop_i + BatchSizeValidate
    /\ UNCHANGED <<pc, err, result, categories, articles, heap, categorized, filtered_count,
                   filtered_log, valid_categories, removed_small, removed_articles,
                   existing_categories>>

ValidateBatch == ValidateBatchWith(ValidationRepliesFor)

\* mutant: the articles of removed categories are not collected
CollectRemovedNothing(h, d, keys, x) == <<>>

\* mutant: the first removed category is skipped
RECURSIVE CollectRemovedSkipsFirst(_, _, _, _)
CollectRemovedSkipsFirst(h, d, keys, x) ==
    IF x >= Len(keys) THEN <<>>
    ELSE (IF PyDictHas(d, keys[x + 1]) THEN h[PyDictGet(d, keys[x + 1])] ELSE <<>>)
         \o CollectRemovedSkipsFirst(h, d, keys, x + 1)

\* removed_articles.extend(categorized_articles.get(category, [])), lines 297-299
RECURSIVE CollectRemoved(_, _, _, _)
CollectRemoved(h, d, keys, x) ==
    IF x > Len(keys) THEN <<>>
    ELSE (IF PyDictHas(d, keys[x]) THEN h[PyDictGet(d, keys[x])] ELSE <<>>)
         \o CollectRemoved(h, d, keys, x + 1)

\* Step 3 and the branch of Step 4, lines 293-302, 339, 344
CollectAndBranch ==
    /\ pc = "validate"
    /\ loop_i >= Len(valid_categories)
    /\ LET orphans == CollectRemoved(heap, categorized, removed_small \o removed_irrelevant, 1) IN
       /\ removed_articles' = orphans
       /\ IF orphans # <<>> /\ relevant_categories # <<>>
          THEN /\ pc' = "recollect"
               /\ existing_categories' = PyDictKeys(relevant_categories)
               /\ loop_i' = 0
               /\ UNCHANGED result
          ELSE IF relevant_categories # <<>>
          THEN /\ pc' = "rename"
               /\ UNCHANGED <<existing_categories, loop_i, result>>
          ELSE /\ pc' = "returned"
               /\ result' = relevant_categories
               /\ UNCHANGED <<existing_categories, loop_i>>
    /\ UNCHANGED <<err, reply, calls, categories, articles, heap, categorized, filtered_count,
                   filtered_log, valid_categories, removed_small, relevant_categories,
                   removed_irrelevant, batch_results>>

\* a.upper() for the strings of the model
Upper(str) == IF str \in {"none", "None", "NONE"} THEN "NONE" ELSE str

\* None if (isinstance(a, str) and a.upper() == "NONE") else a, lines 521, 611
NoneIfSentinel(a) == IF IsPyStr(a) /\ Upper(a.v) = "NONE" THEN JNull ELSE a

AllNone(n) == [x \in 1..n |-> JNull]

\* lines 517-525 and 609-614
NormalizeAssignments(n, a) ==
    IF IsList(a) /\ Len(a.v) = n THEN [x \in 1..n |-> NoneIfSentinel(a.v[x])]
    ELSE AllNone(n)

\* mutant: a batch whose recategorization failed goes to the first category
RecategorizeBatchFailFirst(n, r) ==
    LET d == Decoded[r] IN
    IF d.raised = "none" /\ IsList(d.v) /\ Len(d.v.v) = n
    THEN NormalizeAssignments(n, d.v)
    ELSE [x \in 1..n |-> JStr(CategoryPool[1])]

\* _recategorize_batch, lines 503-531, for a batch of n articles
RecategorizeBatch(n, r) ==
    LET d == Decoded[r] IN
    IF d.raised # "none" THEN AllNone(n) ELSE NormalizeAssignments(n, d.v)

\* the articles behind the ids of a batch
ArticlesOf(ids) == [x \in DOMAIN ids |-> articles[ids[x]]]

\* mutant: an article without a usable assignment goes to the first category
RECURSIVE ApplyAssignmentsOrFirst(_, _, _, _, _, _)
ApplyAssignmentsOrFirst(h, dict, existing, batch, assignments, x) ==
    IF x > Len(batch) \/ x > Len(assignments) THEN h
    ELSE LET a == assignments[x]
             h1 == IF Truthy(a) /\ a \in Range(existing)
                   THEN HeapAppend(h, PyDictGet(dict, a), batch[x])
                   ELSE HeapAppend(h, dict[1].v, batch[x])
         IN  ApplyAssignmentsOrFirst(h1, dict, existing, batch, assignments, x + 1)

\* lines 335-337: append each article to the list of its assigned category
RECURSIVE ApplyAssignments(_, _, _, _, _, _)
ApplyAssignments(h, dict, existing, batch, assignments, x) ==
    IF x > Len(batch) \/ x > Len(assignments) THEN h
    ELSE LET a == assignments[x]
             h1 == IF Truthy(a) /\ a \in Range(existing)
                   THEN HeapAppend(h, PyDictGet(dict, a), batch[x])
                   ELSE h
         IN  ApplyAssignments(h1, dict, existing, batch, assignments, x + 1)

\* one iteration of the loop of line 310 that is not the last one, lines 331-337
RecollectBatchWith(Replies) ==
    /\ pc = "recollect"
    /\ loop_i + BatchSizeRecollect < Len(removed_articles)
    /\ LET batch == Slice(removed_articles, loop_i + 1, loop_i + BatchSizeRecollect) IN
       IF PromptRaises(ArticlesOf(batch))
       THEN /\ pc' = "raised"
            /\ err' = "TypeError"
            /\ UNCHANGED <<reply, calls, heap, loop_i>>
       ELSE \E r \in Replies[Len(batch)] :
            \E assignments \in {RecategorizeBatch(Len(batch), r)} :
            /\ reply' = r
            /\ calls' = Append(calls, AssignmentRecord("_recategorize_batch", batch,
                                  existing_categories, assignments))
            /\ heap' = ApplyAssignments(heap, relevant_categories, existing_categories, batch,
                                        assignments, 1)
            /\ loop_i' = loop_i + BatchSizeRecollect
            /\ UNCHANGED <<pc, err>>
    /\ UNCHANGED <<result, categories, articles, categorized, filtered_count, filtered_log,
                   fvVars>>

\* The renaming loop of lines 462-466 and 619-624 from entry x of dict on.
\* acc is [ok, heap, renamed, name_mapping]; copies says whether each list is
\* copied (line 621) or shared (line 464); an unhashable new name raises.
RECURSIVE RenameLoop(_, _, _, _, _)
RenameLoop(dict, rename_mapping, x, acc, copies) ==
    IF x > Len(dict) THEN acc
    ELSE IF ~IsDict(rename_mapping) THEN [acc EXCEPT !.ok = FALSE]
    ELSE LET old_name == dict[x].k
             new_name == IF IsPyStr(old_name) /\ old_name.v \in DOMAIN rename_mapping.v
                         THEN rename_mapping.v[old_name.v] ELSE old_name
             ref == IF copies THEN Len(acc.heap) + 1 ELSE dict[x].v
         IN  IF ~Hashable(new_name) THEN [acc EXCEPT !.ok = FALSE]
             ELSE RenameLoop(dict, rename_mapping, x + 1,
                    [ok |-> TRUE,
                     heap |-> IF copies THEN Append(acc.heap, acc.heap[dict[x].v]) ELSE acc.heap,
                     renamed |-> PyDictSet(acc.renamed, new_name, ref),
                     name_mapping |-> acc.name_mapping \o <<[k |-> old_name, v |-> new_name]>>],
                    copies)

RenameStart(h) == [ok |-> TRUE, heap |-> h, renamed |-> <<>>, name_mapping |-> <<>>]

\* result.get(key, default) of line 608 and of line 617
GetOr(obj, key, default) == IF key \in DOMAIN obj.v THEN obj.v[key] ELSE default

\* The try block of _recategorize_and_rename_combined, lines 591-626: ok is
\* FALSE when it raised
CombinedTry(h, dict, n, r) ==
    LET d == Decoded[r] IN
    IF d.raised # "none" \/ ~IsDict(d.v)
    THEN [ok |-> FALSE]
    ELSE LET res == RenameLoop(dict, GetOr(d.v, "renames", JObj(<<>>)), 1, RenameStart(h), TRUE)
         IN  IF ~res.ok THEN [ok |-> FALSE]
             ELSE [ok |-> TRUE,
                   assignments |->
                       NormalizeAssignments(n, GetOr(d.v, "recategorizations", JArr(<<>>))),
                   heap |-> res.heap, renamed |-> res.renamed,
                   name_mapping |-> res.name_mapping]

\* The except block, lines 627-632: a second call, the mapping handed back
CombinedFallback(h, dict, existing, n, r2) ==
    [ok |-> TRUE, assignments |-> RecategorizeBatch(n, r2), heap |-> h, renamed |-> dict,
     name_mapping |-> [x \in DOMAIN existing |-> [k |-> existing[x], v |-> existing[x]]]]

\* name_mapping.get(name, name), line 324
MappingGet(name_mapping, name) ==
    IF \E x \in DOMAIN name_mapping : name_mapping[x].k = name
    THEN name_mapping[CHOOSE x \in DOMAIN name_mapping :
                         name_mapping[x].k = name
                         /\ \A y \in DOMAIN name_mapping : name_mapping[y].k = name => y <= x].v
    ELSE name

\* mutant: the assignments of the last batch are not applied
ApplyRenamedAssignmentsNot(h, renamed, name_mapping, existing, batch, assignments, x) == h

\* lines 321-326
RECURSIVE ApplyRenamedAssignments(_, _, _, _, _, _, _)
ApplyRenamedAssignments(h, renamed, name_mapping, existing, batch, assignments, x) ==
    IF x > Len(batch) \/ x > Len(assignments) THEN h
    ELSE LET a == assignments[x]
             new_category_name == MappingGet(name_mapping, a)
             h1 == IF Truthy(a) /\ a \in Range(existing) /\ PyDictHas(renamed, new_category_name)
                   THEN HeapAppend(h, PyDictGet(renamed, new_category_name), batch[x])
                   ELSE h
         IN  ApplyRenamedAssignments(h1, renamed, name_mapping, existing, batch, assignments,
                                     x + 1)

\* the last iteration of the loop of line 310, lines 314-329, and the return
RecollectLastWith(Replies, FallbackReplies) ==
    /\ pc = "recollect"
    /\ loop_i < Len(removed_articles)
    /\ loop_i + BatchSizeRecollect >= Len(removed_articles)
    /\ LET batch == Slice(removed_articles, loop_i + 1, loop_i + BatchSizeRecollect)
           n == Len(batch)
           rec1(res) == AssignmentRecord("_recategorize_and_rename_combined", batch,
                                         existing_categories, res.assignments)
           rec2(res) == AssignmentRecord("_recategorize_batch", batch, existing_categories,
                                         res.assignments)
           Finish(res, r, fellback) ==
               /\ reply' = r
               /\ calls' = calls \o (IF fellback THEN <<rec1(res), rec2(res)>>
                                                 ELSE <<rec1(res)>>)
               /\ heap' = ApplyRenamedAssignments(res.heap, res.renamed, res.name_mapping,
                                                  existing_categories, batch, res.assignments, 1)
               /\ relevant_categories' = res.renamed
               /\ result' = res.renamed
               /\ loop_i' = loop_i + BatchSizeRecollect
               /\ pc' = "returned"
               /\ UNCHANGED err
       IN  IF PromptRaises(ArticlesOf(batch))
           THEN /\ pc' = "raised"
                /\ err' = "TypeError"
                /\ UNCHANGED <<reply, calls, heap, loop_i, relevant_categories, result>>
           ELSE \E r \in Replies[n] :
                \E res \in {CombinedTry(heap, relevant_categories, n, r)} :
                IF res.ok
                THEN Finish(res, r, FALSE)
                ELSE \E r2 \in FallbackReplies[n] :
                     \E res2 \in {CombinedFallback(heap, relevant_categories,
                                                   existing_categories, n, r2)} :
                        Finish(res2, r2, TRUE)
    /\ UNCHANGED <<categories, articles, categorized, filtered_count, filtered_log,
                   valid_categories, removed_small, removed_irrelevant, removed_articles,
                   existing_categories, batch_results>>

\* mutant: a failed rename returns no categories
RenameCategoriesBatchFailEmpty(h, dict, r) ==
    LET d == Decoded[r] IN
    IF d.raised # "none" THEN <<>>
    ELSE LET res == RenameLoop(dict, d.v, 1, RenameStart(h), FALSE)
         IN  IF res.ok THEN res.renamed ELSE <<>>

\* mutant: the renamed mapping lists its categories in reverse order
RenameCategoriesBatchReversed(h, dict, r) ==
    LET d == Decoded[r] IN
    IF d.raised # "none" THEN dict
    ELSE LET res == RenameLoop(dict, d.v, 1, RenameStart(h), FALSE)
         IN  IF res.ok
             THEN [x \in DOMAIN res.renamed |-> res.renamed[Len(res.renamed) + 1 - x]]
             ELSE dict

\* _rename_categories_batch, lines 443-472
RenameCategoriesBatch(h, dict, r) ==
    LET d == Decoded[r] IN
    IF d.raised # "none" THEN dict
    ELSE LET res == RenameLoop(dict, d.v, 1, RenameStart(h), FALSE)
         IN  IF res.ok THEN res.renamed ELSE dict

\* lines 339-344
RenameOnlyWith(Replies) ==
    /\ pc = "rename"
    /\ \E r \in Replies :
       \E renamed \in {RenameCategoriesBatch(heap, relevant_categories, r)} :
         /\ reply' = r
         /\ calls' = Append(calls, CallRecord("_rename_categories_batch", <<>>,
                                              PyDictKeys(relevant_categories), <<>>))
         /\ relevant_categories' = renamed
         /\ result' = renamed
    /\ pc' = "returned"
    /\ UNCHANGED <<err, categories, articles, heap, categorized, filtered_count, filtered_log,
                   loop_i, valid_categories, removed_small, removed_irrelevant,
                   removed_articles, existing_categories, batch_results>>

----------------------------------------------------------------------------
(* filter_and_validate_categories on its own                                *)

MaxCategories == 6
MaxSize == 3

\* The mapping of k categories whose lists hold sx articles at the odd
\* positions and sy at the even ones, every article in one list
SizeAt(x, sx, sy) == IF x % 2 = 1 THEN sx ELSE sy
FirstId(x, sx, sy) == (x \div 2) * sx + ((x - 1) \div 2) * sy
MkHeap(k, sx, sy) ==
    [x \in 1..k |-> [q \in 1..SizeAt(x, sx, sy) |-> FirstId(x, sx, sy) + q]]
MkMapping(k) == [x \in 1..k |-> [k |-> JStr(CategoryPool[x]), v |-> x]]

InitFV ==
    /\ InitCtl("size_filter")
    /\ categories = <<>>
    /\ \E k \in 0..MaxCategories, sx \in 0..MaxSize, sy \in 0..MaxSize, d \in DescKinds :
         /\ heap = MkHeap(k, sx, sy)
         /\ categorized = MkMapping(k)
         /\ articles = MkArticles(FirstId(k + 1, sx, sy), d)
    /\ filtered_count = 0
    /\ filtered_log = <<>>
    /\ loop_i = 0
    /\ InitFvVars

RecollectBatch == RecollectBatchWith(RecatRepliesFor)
RecollectLast == RecollectLastWith(CombinedRepliesFor, RecatRepliesFor)
RenameOnly == RenameOnlyWith(RenameReplies)

NextFV ==
    \/ SizeFilter
    \/ ValidateBatch
    \/ CollectAndBranch
    \/ RecollectBatch
    \/ RecollectLast
    \/ RenameOnly

SpecFV == InitFV /\ [][NextFV]_vars

\* the validation calls made so far
ValidationCalls == SelectSeq(calls, LAMBDA c : c.fn = "_check_batch_category_relevance")

(* C7: the size filter is completed before the first relevance-validation   *)
(* call is issued (by then every category of the input is either removed as *)
(* small or a candidate for validation), and no category with fewer than 2  *)
(* articles is in any batch passed to the relevance validator.              *)
C7_SizeFilterFirst ==
    /\ pc = "size_filter" => ValidationCalls = <<>>
    /\ ValidationCalls # <<>> =>
          \A x \in DOMAIN categorized :
              \/ categorized[x].k \in Range(removed_small)
              \/ PyDictHas(valid_categories, categorized[x].k)
    /\ \A c \in Range(ValidationCalls) : \A x \in DOMAIN c.cats :
          /\ c.sizes[x] >= 2
          /\ c.cats[x] \notin Range(removed_small)

\* a validation call has been made after the size filter removed a category
C7_Witness ==
    /\ ValidationCalls # <<>>
    /\ removed_small # <<>>
    /\ \E x \in DOMAIN categorized : Len(heap[categorized[x].v]) = 1

\* a step of the validation loop, and the batch it validates
IsValidateStep == pc = "validate" /\ calls' # calls
ValidatedBatch == Slice(valid_categories, loop_i + 1, loop_i + BatchSizeValidate)

\* the reply is no JSON array of n elements: the call failed, the text does
\* not decode, or it decodes to something else
NoArrayOf(n, r) ==
    \/ r.kind # "text"
    \/ LET d == JsonLoads(CleanResponse(r.text)) IN
       ~d.ok \/ ~IsList(d.v) \/ Len(d.v.v) # n

(* C8: when the relevance-validation call for a batch fails by transport    *)
(* error, by undecodable response, or by returning a JSON value that is not *)
(* an array of exactly the batch's length, every category of the batch is   *)
(* retained in the surviving set with its articles, and none of them enters *)
(* the removed-irrelevant list.                                             *)
C8_FailedValidationKeepsBatch ==
    [][(IsValidateStep /\ NoArrayOf(Len(ValidatedBatch), reply')) =>
          /\ \A x \in DOMAIN ValidatedBatch :
                /\ PyDictHas(relevant_categories', ValidatedBatch[x].k)
                /\ PyDictGet(relevant_categories', ValidatedBatch[x].k) = ValidatedBatch[x].v
                /\ ValidatedBatch[x].k \notin Range(removed_irrelevant')
          /\ removed_irrelevant' = removed_irrelevant]_vars

\* a full batch whose validation reply was one element short has survived
C8_Witness ==
    /\ pc = "validate"
    /\ loop_i = BatchSizeValidate
    /\ reply = TextReply(PatternArray(BatchSizeValidate - 1, <<Tok("false")>>, <<Tok("false")>>))
    /\ Len(relevant_categories) = BatchSizeValidate
    /\ removed_irrelevant = <<>>

(* C10: for every batch and every outcome of the call,                      *)
(* _check_batch_category_relevance returns one element per pair, each a     *)
(* boolean, and the caller drops a category exactly when the answer at its  *)
(* position (in an array of the batch's length) is the boolean false.       *)
C10_BooleanVerdicts ==
    [][IsValidateStep =>
          LET n == Len(ValidatedBatch)
              AnswersFalse(x) ==
                  /\ ~NoArrayOf(n, reply')
                  /\ JsonLoads(CleanResponse(reply'.text)).v.v[x] = JBool(FALSE)
              Dropped(x) ==
                  \E y \in (Len(removed_irrelevant) + 1)..Len(removed_irrelevant') :
                      removed_irrelevant'[y] = ValidatedBatch[x].k
          IN  /\ Len(batch_results') = n
              /\ \A x \in 1..n : batch_results'[x].k = "bool"
              /\ \A x \in 1..n : Dropped(x) <=> AnswersFalse(x)]_vars

\* article a is listed in the mapping d
ListedIn(h, d, a) == \E x \in DOMAIN d : a \in Range(h[d[x].v])

\* the step issued a _recategorize_batch call (on its own, or as the fallback
\* of the combined call), answered by reply'
IsRecatStep ==
    /\ pc = "recollect"
    /\ Len(calls') > Len(calls)
    /\ calls'[Len(calls')].fn = "_recategorize_batch"

\* the _recategorize_batch calls made so far
RecatCalls == SelectSeq(calls, LAMBDA c : c.fn = "_recategorize_batch")

(* C11: when a _recategorize_batch call fails (transport error, undecodable *)
(* response, or a value that is not an array of the batch's length), the    *)
(* function returns None for every article of the batch, the surviving      *)
(* categories and their lists are left as they were, and in the mapping     *)
(* finally returned no orphan of such a batch is listed.                    *)
C11_FailedRecategorizeDiscards ==
    [][/\ (IsRecatStep /\ NoArrayOf(Len(calls'[Len(calls')].arts), reply')) =>
             /\ calls'[Len(calls')].returned = AllNone(Len(calls'[Len(calls')].arts))
             /\ heap' = heap
             /\ relevant_categories' = relevant_categories
       /\ pc' = "returned" =>
             \A c \in Range(RecatCalls') :
                 c.returned = AllNone(Len(c.arts)) =>
                     \A x \in DOMAIN c.arts : ~ListedIn(heap', result', c.arts[x])]_vars

\* a regular batch and the fallback of the last batch both failed, and a
\* mapping with categories was returned
C11_Witness ==
    /\ pc = "returned"
    /\ reply = TextReply(<<Junk>>)
    /\ Len(RecatCalls) = 2
    /\ \A x \in DOMAIN RecatCalls : RecatCalls[x].returned = AllNone(Len(RecatCalls[x].arts))
    /\ result # <<>>

\* the step processed a batch of orphans, by whichever call
IsRecollectStep == pc = "recollect" /\ Len(calls') > Len(calls)

\* the array of the reply that answers the batch of n orphans of the step's
\* last call, <<>> when the reply has none of that length
ResponseArray(fn, n, r) ==
    IF r.kind # "text" THEN <<>>
    ELSE LET d == JsonLoads(CleanResponse(r.text))
             a == IF ~d.ok THEN JNull
                  ELSE IF fn = "_recategorize_batch" THEN d.v
                  ELSE IF IsDict(d.v) /\ "recategorizations" \in DOMAIN d.v.v
                       THEN d.v.v["recategorizations"]
                  ELSE JNull
         IN  IF IsList(a) /\ Len(a.v) = n THEN a.v ELSE <<>>

\* s is a prefix of t
IsPrefix(s, t) == Len(s) <= Len(t) /\ SubSeq(t, 1, Len(s)) = s

\* the calls that returned assignments for a batch of orphans
AssignmentCalls ==
    SelectSeq(calls, LAMBDA c : c.fn \in {"_recategorize_batch",
                                          "_recategorize_and_rename_combined"})

(* C12: during recollection an orphan is added to a category only when the  *)
(* response at its position is exactly the name of a category that survived *)
(* validation; NONE in any letter case, null, or any other name leaves the  *)
(* orphan out of the final mapping; and recollection creates no category:   *)
(* every category after a recollection step continues a surviving one.      *)
C12_OnlySurvivingNames ==
    [][IsRecollectStep =>
          LET last == calls'[Len(calls')]
              resp == ResponseArray(last.fn, Len(last.arts), reply')
              Named(x) == x \in DOMAIN resp /\ resp[x] \in Range(existing_categories)
          IN  /\ \A x \in DOMAIN last.arts :
                    ListedIn(heap', relevant_categories', last.arts[x]) => Named(x)
              /\ \A x \in DOMAIN last.arts :
                    (x \in DOMAIN resp
                       /\ resp[x] \in {JStr("NONE"), JStr("none"), JStr("None"), JNull,
                                       JStr("Tariffs"), JStr("trade policy")}
                       /\ resp[x] \notin Range(existing_categories))
                    => ~ListedIn(heap', relevant_categories', last.arts[x])
              /\ \A y \in DOMAIN relevant_categories' :
                    \E z \in DOMAIN relevant_categories :
                        IsPrefix(heap[relevant_categories[z].v],
                                 heap'[relevant_categories'[y].v])
              /\ pc' = "returned" =>
                    \A a \in Range(removed_articles) :
                        ListedIn(heap', result', a) =>
                            \E c \in Range(AssignmentCalls') : \E x \in DOMAIN c.arts :
                                c.arts[x] = a /\ c.returned[x] \in Range(existing_categories)]_vars

\* the combined call answered "none" for one orphan and a surviving name for
\* another: the first is in no category, the second is in one
C12_Witness ==
    /\ pc = "returned"
    /\ calls # <<>>
    /\ calls[Len(calls)].fn = "_recategorize_and_rename_combined"
    /\ \E x, y \in DOMAIN calls[Len(calls)].arts :
          /\ calls[Len(calls)].returned[x] = JNull
          /\ ~ListedIn(heap, result, calls[Len(calls)].arts[x])
          /\ ListedIn(heap, result, calls[Len(calls)].arts[y])

\* the step renamed the categories: in the rename-only call, or in a combined
\* call whose try block came through
IsRenameOnlyStep == pc = "rename" /\ pc' = "returned"
IsCombinedRenameStep ==
    /\ pc = "recollect"
    /\ pc' = "returned"
    /\ calls'[Len(calls')].fn = "_recategorize_and_rename_combined"

\* the rename mapping of reply r as the step reads it, JNull when there is none
RenameResponse(combined, r) ==
    IF r.kind # "text" THEN JNull
    ELSE LET d == JsonLoads(CleanResponse(r.text)) IN
         IF ~d.ok THEN JNull
         ELSE IF ~combined THEN d.v
         ELSE IF IsDict(d.v) /\ "renames" \in DOMAIN d.v.v THEN d.v.v["renames"]
         ELSE JNull

\* a JSON object all of whose values are strings
NameToName(j) == IsDict(j) /\ \A key \in DOMAIN j.v : IsPyStr(j.v[key])

(* C13: for every rename response that decodes to a name-to-name mapping,   *)
(* the renamed mapping has as many categories as the input, and the list of *)
(* every input category appears (same articles, same order) under exactly   *)
(* one output key; in the rename-only call and in the combined call.        *)
C13_RenameKeepsEveryCategory ==
    [][((IsRenameOnlyStep \/ IsCombinedRenameStep)
          /\ NameToName(RenameResponse(IsCombinedRenameStep, reply'))) =>
             /\ Len(relevant_categories') = Len(relevant_categories)
             /\ \A x \in DOMAIN relevant_categories :
                   Cardinality({y \in DOMAIN relevant_categories' :
                                   IsPrefix(heap[relevant_categories[x].v],
                                            heap'[relevant_categories'[y].v])}) = 1]_vars

(* C14: in the renamer, every category whose current name is not a key of   *)
(* the returned rename mapping is in the output under its original name     *)
(* with its articles unchanged.                                             *)
C14_UnmappedNamesKept ==
    [][(IsRenameOnlyStep /\ IsDict(RenameResponse(FALSE, reply'))) =>
          \A x \in DOMAIN relevant_categories :
              LET e == relevant_categories[x] IN
              (IsPyStr(e.k) /\ e.k.v \notin DOMAIN RenameResponse(FALSE, reply').v) =>
                  /\ PyDictHas(result', e.k)
                  /\ heap'[PyDictGet(result', e.k)] = heap[e.v]]_vars

\* the rename mapping rm cannot be applied to the mapping d: it is no JSON
\* object, or it gives a category of d a new name that cannot be a key
Unusable(rm, d) ==
    \/ ~IsDict(rm)
    \/ \E x \in DOMAIN d :
          IsPyStr(d[x].k) /\ d[x].k.v \in DOMAIN rm.v /\ ~Hashable(rm.v[d[x].k.v])

(* C15: when the rename-only call fails (transport error, undecodable       *)
(* response, or a decoded value that cannot be used as a name mapping),     *)
(* _rename_categories_batch returns a mapping equal to its input: the same  *)
(* keys in the same order, the same article lists.                          *)
C15_FailedRenameReturnsInput ==
    [][(IsRenameOnlyStep /\ Unusable(RenameResponse(FALSE, reply'), relevant_categories)) =>
          /\ result' = relevant_categories
          /\ relevant_categories' = relevant_categories
          /\ heap' = heap]_vars

\* a rename reply that is a JSON string has left two or more categories as they were
C15_Witness ==
    /\ pc = "returned"
    /\ reply = TextReply(<<TStr("Tariffs")>>)
    /\ Len(result) >= 2
    /\ result = relevant_categories
    /\ PyDictKeys(result) = [x \in DOMAIN result |-> JStr(CategoryPool[x])]

\* the rename mapping rm gives every category of d its own name
IsIdentityFor(rm, d) ==
    /\ IsDict(rm)
    /\ \A x \in DOMAIN d :
          IsPyStr(d[x].k) /\ d[x].k.v \in DOMAIN rm.v /\ rm.v[d[x].k.v] = d[x].k

(* C16: if the rename response maps every category name of the input to     *)
(* itself, the renamer's output equals its input (same keys in the same     *)
(* order, each with the same articles in the same order), and applying the  *)
(* renamer again with the same response changes nothing.                    *)
C16_IdentityRenameIsNoOp ==
    [][(IsRenameOnlyStep /\ IsIdentityFor(RenameResponse(FALSE, reply'), relevant_categories)) =>
          /\ result' = relevant_categories
          /\ heap' = heap
          /\ RenameCategoriesBatch(heap', result', reply') = result']_vars

\* the identity response has been applied to three or more categories
C16_Witness ==
    /\ pc = "returned"
    /\ reply = TextReply(RenameObject("same"))
    /\ calls # <<>>
    /\ calls[Len(calls)].fn = "_rename_categories_batch"
    /\ Len(result) >= 3

\* the stages of filter_and_validate_categories in their order
StageRank(p) ==
    CASE p = "size_filter" -> 1
      [] p = "validate"    -> 2
      [] p \in {"recollect", "rename"} -> 3
      [] OTHER             -> 4

\* some removed category has an article
OrphanPoolNonEmpty ==
    \E x \in DOMAIN categorized :
        /\ categorized[x].k \in Range(removed_small) \cup Range(removed_irrelevant)
        /\ heap[categorized[x].v] # <<>>

RenameCalls == SelectSeq(calls, LAMBDA c : c.fn = "_rename_categories_batch")

(* C17: after validation exactly one of three paths is taken: Recollect iff *)
(* the orphan pool is non-empty and a category survived; Rename-only iff    *)
(* the pool is empty and a category survived; otherwise the empty mapping   *)
(* is returned and no recollection or rename call is issued. Recollect and  *)
(* Rename-only never both run, and no stage is entered again.               *)
C17_OneOfThreePaths ==
    [][/\ (pc = "validate" /\ pc' # "validate") =>
             /\ pc' \in {"recollect", "rename", "returned"}
             /\ pc' = "recollect" <=> (OrphanPoolNonEmpty /\ relevant_categories # <<>>)
             /\ pc' = "rename" <=> (~OrphanPoolNonEmpty /\ relevant_categories # <<>>)
             /\ pc' = "returned" => (result' = <<>> /\ calls' = calls
                                     /\ AssignmentCalls = <<>> /\ RenameCalls = <<>>)
       /\ ~(AssignmentCalls' # <<>> /\ RenameCalls' # <<>>)
       /\ Len(RenameCalls') <= 1
       /\ StageRank(pc') >= StageRank(pc)
       /\ (pc = "recollect" /\ pc' = "recollect") => loop_i' > loop_i]_vars

\* the Recollect path has been entered with orphans and survivors
C17_Witness ==
    /\ pc = "recollect"
    /\ loop_i = 0
    /\ Len(removed_articles) > BatchSizeRecollect
    /\ Len(relevant_categories) >= 2
    /\ RenameCalls = <<>>

\* the articles the x-th input category was given with: those of its list
\* that are no orphans (every article of the input is in one list)
OriginalList(x) ==
    SelectSeq(heap[categorized[x].v], LAMBDA a : a \notin Range(removed_articles))

\* the x-th input category passed the size filter and the validation
Survived(x) ==
    /\ PyDictHas(valid_categories, categorized[x].k)
    /\ categorized[x].k \notin Range(removed_small)
    /\ categorized[x].k \notin Range(removed_irrelevant)

(* C18: every category of the mapping returned by                           *)
(* filter_and_validate_categories holds at least 2 articles and continues   *)
(* (possibly under a new name) a category that had at least 2 articles on   *)
(* entry and was kept by validation: its list starts with that category's.  *)
C18_ReturnedCategoriesValidated ==
    pc = "returned" =>
        \A y \in DOMAIN result :
            /\ Len(heap[result[y].v]) >= 2
            /\ \E x \in DOMAIN categorized :
                  /\ Survived(x)
                  /\ Len(OriginalList(x)) >= 2
                  /\ IsPrefix(OriginalList(x), heap[result[y].v])

\* a mapping was returned with a renamed category after validation had
\* removed another as irrelevant
C18_Witness ==
    /\ pc = "returned"
    /\ removed_irrelevant # <<>>
    /\ Len(result) >= 2
    /\ PyDictHas(result, JStr("Tariffs"))

\* the places (category, position) where article a is listed in mapping d
PlacesOf(h, d, a) ==
    UNION {{<<y, q>> : q \in {p \in DOMAIN h[d[y].v] : h[d[y].v][p] = a}} : y \in DOMAIN d}

(* C19: if every article occurs at most once in the mapping given to        *)
(* filter_and_validate_categories, every article occurs at most once in the *)
(* mapping it returns (in one category at most, and once in it), whatever   *)
(* the validation, recollection and rename replies, failures of the         *)
(* combined call included.                                                  *)
C19_ReturnedArticlesOnce ==
    pc = "returned" =>
        \A a \in 1..Len(articles) : Cardinality(PlacesOf(heap, result, a)) <= 1

\* the combined call failed, its fallback placed an orphan, and the mapping
\* was returned
C19_Witness ==
    /\ pc = "returned"
    /\ Len(calls) >= 2
    /\ calls[Len(calls)].fn = "_recategorize_batch"
    /\ calls[Len(calls) - 1].fn = "_recategorize_and_rename_combined"
    /\ \E x \in DOMAIN calls[Len(calls)].arts :
          Cardinality(PlacesOf(heap, result, calls[Len(calls)].arts[x])) = 1

(* C20: every article of the mapping given to                               *)
(* filter_and_validate_categories is accounted for: an article of a         *)
(* category that passed the size filter and the validation is in the        *)
(* returned mapping, and an article absent from it is an orphan, an article *)
(* of a removed category.                                                   *)
C20_SurvivingArticlesReturned ==
    pc = "returned" =>
        /\ \A x \in DOMAIN categorized :
              Survived(x) => \A a \in Range(OriginalList(x)) : ListedIn(heap, result, a)
        /\ \A a \in 1..Len(articles) :
              ~ListedIn(heap, result, a) => a \in Range(removed_articles)

\* the lists of mapping d one after the other, from entry x on
RECURSIVE ListsInOrder(_, _, _)
ListsInOrder(h, d, x) ==
    IF x > Len(d) THEN <<>> ELSE h[d[x].v] \o ListsInOrder(h, d, x + 1)

(* C21: filter_and_validate_categories does not change the mapping it       *)
(* receives: at every moment, and so after it returns, the input mapping    *)
(* has the keys it was given and every key's list holds the articles it was *)
(* given in the same order (the lists of the input, read in key order, are  *)
(* the articles 1, 2, ... in order).                                        *)
C21_InputMappingUnchanged ==
    /\ PyDictKeys(categorized) = [x \in DOMAIN categorized |-> JStr(CategoryPool[x])]
    /\ ListsInOrder(heap, categorized, 1) = [a \in 1..Len(articles) |-> a]

----------------------------------------------------------------------------
(* categorize_articles followed by filter_and_validate_categories           *)

\* the mapping categorize_articles returned is the argument of
\* filter_and_validate_categories
PipelineFilter ==
    /\ pc = "categorized"
    /\ pc' = "size_filter"
    /\ UNCHANGED <<err, reply, calls, result, categories, catVars, fvVars>>

PipeAssignRepliesFor ==
    [n \in 1..BatchSizeAssign |->
        {TransportFailure,
         TextReply(PatternObject(n, <<TStr("Trade Policy")>>, <<TStr("Healthcare")>>)),
         TextReply(PatternObject(n, <<TStr("Healthcare")>>, <<TStr("FILTER_OUT")>>))}
        \cup PlacementRepliesFor[n]]
PipeValidationRepliesFor ==
    [n \in 1..BatchSizeValidate |->
        {TextReply(<<Junk>>),
         TextReply(PatternArray(n, <<Tok("false")>>, <<Tok("true")>>)),
         TextReply(Wrap("fenced_json", PatternArray(n, <<Tok("false")>>, <<Tok("false")>>)))}]

InitPipe == InitCat

NextPipe ==
    \/ CategorizeEnter
    \/ CategorizeBatchWith(PipeAssignRepliesFor)
    \/ CategorizeReturn
    \/ PipelineFilter
    \/ SizeFilter
    \/ ValidateBatchWith(PipeValidationRepliesFor)
    \/ CollectAndBranch
    \/ RecollectBatch
    \/ RecollectLast
    \/ RenameOnly

SpecPipe == InitPipe /\ [][NextPipe]_vars

(* C6: for any generated category list (the empty one included) and any     *)
(* articles with an absent or null description, categorize_articles         *)
(* followed by filter_and_validate_categories never ends in an error,       *)
(* whatever the outcomes of the completion calls.                           *)
C6_PipelineNeverRaises == pc # "raised"

\* the lists of the two generated categories, and the first without the
\* articles of the second
ListOfFirst == heap[PyDictGet(categorized, JStr(CategoryPool[1]))]
ListOfSecond == heap[PyDictGet(categorized, JStr(CategoryPool[2]))]
FirstWithoutSecond == SelectSeq(ListOfFirst, LAMBDA a : a \notin Range(ListOfSecond))

\* 12 articles, the two categories, and assignments that placed 8 articles
\* in Trade Policy, 1 in Healthcare and filtered 3 out
PlacedEightOneThree ==
    /\ pc \notin {"categorize", "categorize_loop", "raised"}
    /\ Len(articles) = 12
    /\ categories = <<"Trade Policy", "Healthcare">>
    /\ Len(FirstWithoutSecond) = 8
    /\ Len(ListOfSecond) = 1
    /\ Len(filtered_log) = 3
    /\ Cardinality(Range(FirstWithoutSecond) \cup Range(ListOfSecond)
                   \cup Range(filtered_log)) = 12

(* C22: with 12 articles, categories Trade Policy and Healthcare, and       *)
(* assignments placing 8 / 1 / 3 (filtered): the filtered count is 3; the   *)
(* size filter removes Healthcare and keeps Trade Policy; when validation   *)
(* retains Trade Policy the orphan pool is Healthcare's one article and the *)
(* final mapping has one category, holding the 8 articles plus the orphan   *)
(* if the recollection response names Trade Policy, the 8 if it says NONE.  *)
C22_EndToEndScenario ==
    PlacedEightOneThree =>
        /\ filtered_count = 3
        /\ pc \notin {"categorized", "size_filter"} =>
              /\ removed_small = <<JStr("Healthcare")>>
              /\ PyDictKeys(valid_categories) = <<JStr("Trade Policy")>>
        /\ (pc \in {"recollect", "rename", "returned"} /\ removed_irrelevant = <<>>) =>
              /\ removed_articles = ListOfSecond
              /\ pc # "rename"
        /\ (pc = "returned" /\ removed_irrelevant = <<>>) =>
              /\ Len(result) = 1
              /\ LET last == calls[Len(calls)]
                     resp == ResponseArray(last.fn, 1, reply)
                     held == heap[result[1].v]
                 IN  /\ resp = <<JStr("Trade Policy")>> =>
                            held = FirstWithoutSecond \o ListOfSecond
                     /\ (resp # <<>> /\ resp[1] \in {JStr("NONE"), JStr("none"), JStr("None")}) =>
                            held = FirstWithoutSecond
                     /\ IsPrefix(FirstWithoutSecond, held)

\* the scenario has ended with the orphan back among the 8 articles
C22_Witness ==
    /\ PlacedEightOneThree
    /\ pc = "returned"
    /\ Len(result) = 1
    /\ Len(heap[result[1].v]) = 9
    /\ ResponseArray(calls[Len(calls)].fn, 1, reply) = <<JStr("Trade Policy")>>

----------------------------------------------------------------------------
(* Decoding a fenced reply: the cleaning and json.loads of every handler    *)

\* the strings of the model with three backticks inside (written <fence>
\* here): what precedes and what follows them
FencedStrings == {"a<fence>b", "<fence>json"}
AroundFence(str) == IF str = "a<fence>b" THEN <<"a", "b">> ELSE <<"", "json">>

\* json.dumps(j)
RECURSIVE JsonDumps(_)
RECURSIVE DumpMembers(_, _)
DumpMembers(obj, keys) ==
    IF keys = {} THEN <<>>
    ELSE LET key == CHOOSE key \in keys : TRUE
         IN  <<<<key, JsonDumps(obj[key])>>>> \o DumpMembers(obj, keys \ {key})
JsonDumps(j) ==
    CASE j.k = "null" -> <<Tok("null")>>
      [] j.k = "bool" -> <<Tok(IF j.v THEN "true" ELSE "false")>>
      [] j.k = "num"  -> <<TNum(j.v)>>
      [] j.k = "str"  -> IF j.v \in FencedStrings
                         THEN <<StrOpen(AroundFence(j.v)[1]), Fence,
                                StrClose(AroundFence(j.v)[2])>>
                         ELSE <<TStr(j.v)>>
      [] j.k = "arr"  -> ArrText([x \in DOMAIN j.v |-> JsonDumps(j.v[x])])
      [] j.k = "obj"  -> ObjText(DumpMembers(j.v, DOMAIN j.v))

\* the serialisation in a fence with the json tag
FencedJson(body) == <<Fence, Tag, Ws>> \o body \o <<Ws, Fence>>

\* the JSON values of the model: scalars, strings (one beginning with the
\* letters json, two with backticks inside), arrays and objects of them
DecodeAtoms ==
    {JNull, JBool(TRUE), JBool(FALSE), JNum("5"), JStr("Trade Policy"), JStr("json first"),
     JStr("a<fence>b"), JStr("<fence>json")}
DecodeValues ==
    DecodeAtoms
    \cup {JArr(q) : q \in SeqsUpTo(DecodeAtoms, MaxArrLen)}
    \cup {JObj(<<>>)}
    \cup {JObj([key \in {"Trade Policy"} |-> a]) : a \in DecodeAtoms}
    \cup {JObj([key \in {"json", "k"} |-> a]) : a \in DecodeAtoms}

InitDecode ==
    /\ pc = "decode"
    /\ err = "none"
    /\ reply \in {TextReply(FencedJson(JsonDumps(v))) : v \in DecodeValues}
    /\ calls = <<>>
    /\ result = NoResult
    /\ categories = <<>>
    /\ InitCatVars
    /\ InitFvVars

\* lines 157-165 (the same in every handler): clean the text, then json.loads
DecodeReply ==
    /\ pc = "decode"
    /\ LET d == JsonLoads(CleanResponse(reply.text)) IN
       /\ result' = d.v
       /\ err' = IF d.ok THEN "none" ELSE "JSONDecodeError"
    /\ pc' = "decoded"
    /\ UNCHANGED <<reply, calls, categories, catVars, fvVars>>

NextDecode == DecodeReply

SpecDecode == InitDecode /\ [][NextDecode]_vars

(* C23: response decoding round-trips: for every JSON value v (strings with *)
(* three backticks inside or beginning with the letters json included), the *)
(* serialisation of v in a fence with a json tag decodes to v by the steps  *)
(* trim, take the segment after the first fence, strip the tag, trim, parse.*)
C23_DecodeRoundTrips ==
    pc = "decoded" =>
        \A v \in DecodeValues :
            reply = TextReply(FencedJson(JsonDumps(v)))
                => (err = "none" /\ result.k = v.k /\ result.v = v.v)

----------------------------------------------------------------------------
(* The pipeline boundary: get_trending_topics (app.py) and main (main.py)   *)

MaxFetched == 2

\* what fetch_recent_politics_articles returns: articles with the kinds of
\* their description and content fields
FetchedArticles(n, d, c) ==
    [x \in 1..n |-> [id |-> x, description |-> IF x = n THEN d ELSE "text",
                     content |-> IF x = n THEN c ELSE "text"]]

\* format_article_for_categorization: content[:500] if content else
\* description[:500] raises TypeError when there is no content and the
\* description is null
FormatRaises(batch) ==
    \E x \in DOMAIN batch : batch[x].content # "text" /\ batch[x].description = "null"

\* fallback_topics of get_trending_topics
FallbackTopics ==
    <<"Government funding", "Election updates", "Foreign policy", "Healthcare reform",
      "Climate policy">>

\* mutant: the handlers catch ValueError alone
BoundaryCatchesValueError == {"ValueError"}

\* except Exception (app.py line 215; main.py lines 119-125 with ValueError first)
BoundaryCatches == {"Exception"}

\* generate_categories, tabulated once over the replies of the model
Generated == [r \in GenReplies |-> GenerateResult(r)]

\* the response of the endpoint when exc left its try block
TopicsExcept(exc) ==
    /\ err' = exc
    /\ IF Catches(BoundaryCatches, exc)
       THEN pc' = "topics_returned" /\ result' = [topics |-> FallbackTopics]
       ELSE pc' = "topics_raised" /\ result' = NoResult

\* app.py lines 196-202: the fetch (which may raise what it does not catch
\* itself) and the return on no articles
TopicsFetch ==
    /\ pc = "topics_fetch"
    /\ \/ /\ TopicsExcept("AttributeError")
          /\ UNCHANGED articles
       \/ \E n \in 0..MaxFetched, d \in DescKinds, c \in DescKinds :
            /\ articles' = FetchedArticles(n, d, c)
            /\ err' = "none"
            /\ IF n = 0
               THEN pc' = "topics_returned" /\ result' = [topics |-> FallbackTopics]
               ELSE pc' = "topics_generate" /\ result' = NoResult
    /\ UNCHANGED <<reply, calls, categories, heap, categorized, filtered_count,
                   filtered_log, loop_i, fvVars>>

\* app.py lines 204-217: the constructor (ValueError without a key), the
\* summaries of the first 10 articles, generate_categories and the response
TopicsGenerate ==
    /\ pc = "topics_generate"
    /\ \/ /\ TopicsExcept("ValueError")
          /\ UNCHANGED <<reply, calls, categories>>
       \/ /\ FormatRaises(Slice(articles, 1, 10))
          /\ TopicsExcept("TypeError")
          /\ UNCHANGED <<reply, calls, categories>>
       \/ /\ ~FormatRaises(Slice(articles, 1, 10))
          /\ \E r \in GenReplies : \E res \in {Generated[r]} :
               /\ reply' = r
               /\ calls' = Append(calls, CallRecord("generate_categories", <<>>, <<>>, <<>>))
               /\ categories' = res.value
               /\ IF res.raised # "none" THEN TopicsExcept(res.raised)
                  ELSE /\ err' = "none"
                       /\ pc' = "topics_returned"
                       /\ result' = [topics |-> IF res.value # <<>> THEN res.value
                                                ELSE FallbackTopics]
    /\ UNCHANGED <<catVars, fvVars>>

\* main.py lines 83-91: the fetch and the return on no articles
MainFetch ==
    /\ pc = "main_fetch"
    /\ \/ /\ err' = "AttributeError"
          /\ pc' = IF Catches(BoundaryCatches, "AttributeError") THEN "main_done"
                   ELSE "main_raised"
          /\ UNCHANGED articles
       \/ \E n \in 0..MaxFetched, d \in DescKinds, c \in DescKinds :
            /\ articles' = FetchedArticles(n, d, c)
            /\ err' = "none"
            /\ pc' = IF n = 0 THEN "main_done" ELSE "main_generate"
    /\ UNCHANGED <<reply, calls, categories, result, heap, categorized, filtered_count,
                   filtered_log, loop_i, fvVars>>

\* main.py lines 95-106: the constructor, the summaries of the first 20
\* articles and generate_categories
MainGenerate ==
    /\ pc = "main_generate"
    /\ \/ /\ err' = "ValueError"
          /\ pc' = "raised"
          /\ UNCHANGED <<reply, calls, categories>>
       \/ /\ FormatRaises(Slice(articles, 1, 20))
          /\ err' = "TypeError"
          /\ pc' = "raised"
          /\ UNCHANGED <<reply, calls, categories>>
       \/ /\ ~FormatRaises(Slice(articles, 1, 20))
          /\ \E r \in GenReplies : \E res \in {Generated[r]} :
               /\ reply' = r
               /\ calls' = Append(calls, CallRecord("generate_categories", <<>>, <<>>, <<>>))
               /\ categories' = res.value
               /\ err' = res.raised
               /\ pc' = IF res.raised = "none" THEN "categorize" ELSE "raised"
    /\ UNCHANGED <<catVars, result, fvVars>>

\* the replies of the assignment calls that main causes
MainAssignRepliesFor ==
    [n \in 1..BatchSizeAssign |-> {TransportFailure, MalformedBody} \cup PlacementRepliesFor[n]]

\* main.py lines 113-116: format_output prints and writes the mapping
MainOutput ==
    /\ pc = "categorized"
    /\ pc' = "main_done"
    /\ UNCHANGED <<err, reply, calls, categories, catVars, result, fvVars>>

\* main.py lines 119-125: the except clauses print the exception
MainExcept ==
    /\ pc = "raised"
    /\ pc' = IF Catches(BoundaryCatches, err) THEN "main_done" ELSE "main_raised"
    /\ UNCHANGED <<err, reply, calls, categories, catVars, result, fvVars>>

InitBoundary ==
    /\ InitCtl("topics_fetch") \/ InitCtl("main_fetch")
    /\ categories = <<>>
    /\ InitCatVars
    /\ InitFvVars

NextBoundary ==
    \/ TopicsFetch
    \/ TopicsGenerate
    \/ MainFetch
    \/ MainGenerate
    \/ CategorizeEnter
    \/ CategorizeBatchWith(MainAssignRepliesFor)
    \/ CategorizeReturn
    \/ MainOutput
    \/ MainExcept

SpecBoundary == InitBoundary /\ [][NextBoundary]_vars

\* the fetch returned no article
FetchedNothing == articles = <<>> /\ err = "none"

----------------------------------------------------------------------------
(* Claims about the recollection batches                                    *)

\* the k-th slice of 5 of the orphan pool
PoolBatch(k) == Slice(removed_articles, 5 * (k - 1) + 1, 5 * k)

\* the number of slices of 5 the orphan pool is cut into
PoolBatches == (Len(removed_articles) + 4) \div 5

(* C25: in the Recollect stage the orphan pool is cut into contiguous       *)
(* batches of at most 5 in pool order; every batch except the last is       *)
(* processed by a recategorize-only call and the last one (also when it is  *)
(* the only one) by the combined recategorize-and-rename call, so renaming  *)
(* is attempted exactly once per run, and only after the assignments of all *)
(* earlier batches have been applied to the surviving categories.           *)
C25_RecollectBatching ==
    /\ Len(AssignmentCalls) <= PoolBatches + 1
    /\ \A k \in DOMAIN AssignmentCalls :
          /\ AssignmentCalls[k].arts = PoolBatch(IF k > PoolBatches THEN PoolBatches ELSE k)
          /\ AssignmentCalls[k].fn = "_recategorize_and_rename_combined" <=> k = PoolBatches
    /\ AssignmentCalls # <<>> => RenameCalls = <<>>
    /\ (pc = "returned" /\ AssignmentCalls # <<>>) => Len(AssignmentCalls) >= PoolBatches
    /\ pc = "recollect" =>
          /\ Len(AssignmentCalls) * 5 = loop_i
          /\ \A k \in DOMAIN AssignmentCalls : \A x \in DOMAIN AssignmentCalls[k].arts :
                AssignmentCalls[k].returned[x] \in Range(existing_categories) =>
                    AssignmentCalls[k].arts[x] \in
                        Range(heap[PyDictGet(relevant_categories,
                                             AssignmentCalls[k].returned[x])])

\* a pool of more than 10 orphans went through two recategorize-only calls and
\* then the combined call
C25_Witness ==
    /\ pc = "returned"
    /\ Len(removed_articles) > 10
    /\ Len(AssignmentCalls) >= 3
    /\ AssignmentCalls[1].fn = "_recategorize_batch"
    /\ AssignmentCalls[2].fn = "_recategorize_batch"
    /\ AssignmentCalls[3].fn = "_recategorize_and_rename_combined"
    /\ \E x \in DOMAIN AssignmentCalls[1].arts :
          AssignmentCalls[1].returned[x] \in Range(existing_categories)

(* C26: in the final recollection batch, assignments are matched against    *)
(* the pre-rename surviving names and only then translated through the      *)
(* rename mapping: an orphan answered with pre-rename name X, where X is    *)
(* renamed to Y, ends up in the final mapping under Y together with X's     *)
(* earlier articles (orphans added to X by earlier batches included); an    *)
(* orphan answered with a name that is no pre-rename surviving name (Y      *)
(* itself, for one) is discarded.                                           *)
C26_AssignThenRename ==
    [][(IsCombinedRenameStep
          /\ Len(calls') = Len(calls) + 1
          /\ NameToName(RenameResponse(TRUE, reply'))) =>
             LET last == calls'[Len(calls')]
                 rm   == RenameResponse(TRUE, reply')
                 NewName(X) == IF X.v \in DOMAIN rm.v THEN rm.v[X.v] ELSE X
             IN  \A x \in DOMAIN last.arts :
                    IF last.returned[x] \in Range(existing_categories)
                    THEN LET X == last.returned[x]
                             Y == NewName(X)
                         IN  /\ PyDictHas(result', Y)
                             /\ IsPrefix(heap[PyDictGet(relevant_categories, X)],
                                         heap'[PyDictGet(result', Y)])
                             /\ last.arts[x] \in Range(heap'[PyDictGet(result', Y)])
                    ELSE ~ListedIn(heap', result', last.arts[x])]_vars

(* C27: no failed completion call is followed by another completion call    *)
(* for the same batch: in validation, recollection (the final combined      *)
(* batch included) and rename, each batch causes exactly one completion     *)
(* call whatever its outcome.                                               *)
C27_OneCallPerBatch ==
    /\ Len(ValidationCalls) <= (Len(valid_categories) + 4) \div 5
    /\ Len(AssignmentCalls) <= PoolBatches
    /\ \A x, y \in DOMAIN AssignmentCalls :
          x # y => AssignmentCalls[x].arts # AssignmentCalls[y].arts
    /\ Len(RenameCalls) <= 1

----------------------------------------------------------------------------
(* Claims about the order of the batches                                    *)

\* the assignment calls made so far
CategorizeCalls == SelectSeq(calls, LAMBDA c : c.fn = "categorize_articles")

\* the ids of s increase
Ascending(s) == \A x, y \in DOMAIN s : x < y => s[x] < s[y]

(* C28: categorize_articles over n articles terminates after exactly        *)
(* ceil(n/10) completion calls, the k-th call covering the slice of         *)
(* articles 10(k-1)+1 .. min(10k, n) in input order, and a call that        *)
(* succeeds appends the articles of its batch to the categories in input    *)
(* order; validation over c categories that passed the size filter issues   *)
(* exactly ceil(c/5) calls in mapping order. A failure in one batch never   *)
(* stops the later batches from being processed.                            *)
C28_BatchesInOrder ==
    /\ [](/\ \A k \in DOMAIN CategorizeCalls :
                CategorizeCalls[k].arts = Ids(Slice(articles, 10 * (k - 1) + 1, 10 * k))
          /\ pc \notin {"categorize", "categorize_loop", "raised"} =>
                Len(CategorizeCalls) = (Len(articles) + 9) \div 10
          /\ pc = "raised" => ValidationCalls # <<>>
          /\ \A k \in DOMAIN ValidationCalls :
                ValidationCalls[k].cats
                    = PyDictKeys(Slice(valid_categories, 5 * (k - 1) + 1, 5 * k))
          /\ pc \in {"recollect", "rename", "returned"} =>
                Len(ValidationCalls) = (Len(valid_categories) + 4) \div 5)
    /\ [][(IsAssignStep /\ Decoded[reply'].raised = "none") =>
             \A x \in DOMAIN categorized :
                 /\ IsPrefix(heap[categorized[x].v], heap'[categorized[x].v])
                 /\ Ascending(SubSeq(heap'[categorized[x].v],
                                     Len(heap[categorized[x].v]) + 1,
                                     Len(heap'[categorized[x].v])))
                 /\ \A q \in (Len(heap[categorized[x].v]) + 1)..Len(heap'[categorized[x].v]) :
                       heap'[categorized[x].v][q] > loop_i]_vars

----------------------------------------------------------------------------
(* Claims about the orphan pool                                             *)

\* the x-th input category was removed by the size filter; by validation
RemovedSmall(x) == categorized[x].k \in Range(removed_small)
RemovedIrrelevant(x) == categorized[x].k \in Range(removed_irrelevant)

\* article a is in the list of an input category that satisfies Rem
InListOf(Rem(_), a) ==
    \E x \in DOMAIN categorized : Rem(x) /\ a \in Range(heap[categorized[x].v])

----------------------------------------------------------------------------
(* filter_foreign_local_politics (news_scraper.py)                          *)

BatchSizeForeign == 10      \* batch_size of filter_foreign_local_politics

\* mutant: a batch whose check failed is removed
CheckBatchForeignFailClosed(n, r) ==
    LET d == IF r.kind = "text" THEN JsonLoads(CleanResponse(r.text))
             ELSE [ok |-> FALSE, v |-> JNull]
    IN  IF d.ok /\ IsList(d.v) /\ Len(d.v.v) = n THEN d.v.v
        ELSE [x \in 1..n |-> JBool(TRUE)]

\* _check_batch_foreign_local_politics with a key configured, lines 203-245:
\* the decoded array when it has one element per article, all False when the
\* request, the body, the decoding or the length check fails
CheckBatchForeign(n, r) ==
    LET d == IF r.kind = "text" THEN JsonLoads(CleanResponse(r.text))
             ELSE [ok |-> FALSE, v |-> JNull]
    IN  IF d.ok /\ IsList(d.v) /\ Len(d.v.v) = n THEN d.v.v
        ELSE [x \in 1..n |-> JBool(FALSE)]

\* the results of the check, tabulated once over the replies of the model
ForeignResults ==
    [n \in 1..BatchSizeForeign |-> [r \in ValidationReplies(n) |-> CheckBatchForeign(n, r)]]

\* lines 133-143: without a key the argument is returned
ForeignEnter ==
    /\ pc = "foreign_filter"
    /\ \E key \in BOOLEAN :
         IF key
         THEN pc' = "foreign_loop" /\ result' = <<>>
         ELSE pc' = "foreign_skipped" /\ result' = Ids(articles)
    /\ filtered_count' = 0
    /\ loop_i' = 0
    /\ UNCHANGED <<err, reply, calls, categories, articles, heap, categorized, filtered_log,
                   fvVars>>

\* one iteration of the loop of line 145
ForeignBatch ==
    /\ pc = "foreign_loop"
    /\ loop_i < Len(articles)
    /\ LET batch == Slice(articles, loop_i + 1, loop_i + BatchSizeForeign) IN
       \E r \in ValidationReplies(Len(batch)) : \E results \in {ForeignResults[Len(batch)][r]} :
         LET kept == SelectSeq(Ids(batch), LAMBDA a : ~Truthy(results[a - loop_i])) IN
         /\ reply' = r
         /\ calls' = Append(calls, CallRecord("_check_batch_foreign_local_politics",
                                              Ids(batch), <<>>, <<>>))
         /\ batch_results' = results
         /\ result' = result \o kept
         /\ filtered_count' = filtered_count + (Len(batch) - Len(kept))
         /\ loop_i' = loop_i + BatchSizeForeign
    /\ UNCHANGED <<pc, err, categories, articles, heap, categorized, filtered_log,
                   valid_categories, removed_small, relevant_categories, removed_irrelevant,
                   removed_articles, existing_categories>>

\* line 157
ForeignReturn ==
    /\ pc = "foreign_loop"
    /\ loop_i >= Len(articles)
    /\ pc' = "foreign_returned"
    /\ UNCHANGED <<err, reply, calls, result, categories, catVars, fvVars>>

InitForeign ==
    /\ InitCtl("foreign_filter")
    /\ categories = <<>>
    /\ articles \in ArticleLists
    /\ heap = <<>>
    /\ categorized = <<>>
    /\ filtered_count = 0
    /\ filtered_log = <<>>
    /\ loop_i = 0
    /\ InitFvVars

NextForeign == ForeignEnter \/ ForeignBatch \/ ForeignReturn

SpecForeign == InitForeign /\ [][NextForeign]_vars

\* a step of ForeignBatch
IsForeignStep == pc = "foreign_loop" /\ Len(calls') = Len(calls) + 1

(* C30: filter_foreign_local_politics returns a subsequence of its input in *)
(* the original order, and the number of returned articles plus the removed *)
(* count equals the number of input articles; when a batch's check fails    *)
(* (transport error, undecodable response, or a result whose length differs *)
(* from the batch's) every article of that batch is kept, and when no       *)
(* completion API key is configured the input is returned unchanged with no *)
(* call issued.                                                             *)
C30_ForeignFilter ==
    /\ [](/\ pc \in {"foreign_loop", "foreign_returned"} =>
                /\ Ascending(result)
                /\ \A x \in DOMAIN result : result[x] \in 1..Len(articles)
                /\ Len(result) + filtered_count = Min(loop_i, Len(articles))
          /\ pc = "foreign_returned" => Len(result) + filtered_count = Len(articles)
          /\ pc = "foreign_skipped" => result = Ids(articles) /\ calls = <<>>)
    /\ [][(IsForeignStep /\ NoArrayOf(Len(calls'[Len(calls')].arts), reply')) =>
             /\ result' = result \o calls'[Len(calls')].arts
             /\ filtered_count' = filtered_count]_vars

\* after a first batch that removed articles, the check of the second batch
\* failed and its articles are all returned
C30_Witness ==
    /\ pc = "foreign_returned"
    /\ Len(articles) > BatchSizeForeign
    /\ filtered_count > 0
    /\ reply = TransportFailure
    /\ \A a \in (BatchSizeForeign + 1)..Len(articles) : a \in Range(result)

====
